---- MODULE Spec2Model ----
(***************************************************************************)
(* Signal derivation and decision aggregation of the Stock Trading         *)
(* Companion: technical_analysis.py, sentiment_analysis.py and             *)
(* decision_engine.py.                                                     *)
(*                                                                         *)
(* Python floats are modelled as exact rationals [t |-> "num", n, d] with  *)
(* d > 0 and gcd(n, d) = 1, as the IEEE not-a-number [t |-> "nan"], or, in *)
(* a mapping that may hold text, as [t |-> "str"].  Python dicts are       *)
(* functions whose DOMAIN is the set of keys present.                      *)
(***************************************************************************)
EXTENDS Integers, Sequences, FiniteSets, TLC

\* The engine called on its own: the call's position, input, result, the callables it
\* invoked, and the call before it.
VARIABLES pc, args, ret, called, prev

\* The command loop: the StockTradingCompanion object, the decision records created so
\* far (self.decision refers to one of them), the main thread's position, the provider
\* threads alive, and the make_decision runs so far.
VARIABLES self, heap, main, threads, runs

enginevars == <<pc, args, ret, called, prev>>

loopvars == <<self, heap, main, threads, runs>>

vars == <<pc, args, ret, called, prev, self, heap, main, threads, runs>>

-----------------------------------------------------------------------------
(* Numbers *)

\* Python's None.
None == [none |-> TRUE]

Abs(i) == IF i < 0 THEN -i ELSE i

RECURSIVE GCD(_, _)
GCD(a, b) == IF b = 0 THEN a ELSE GCD(b, a % b)

Num(n, d) ==
    LET s == IF d < 0 THEN -1 ELSE 1
        g == GCD(Abs(n), Abs(d))
    IN  [t |-> "num", n |-> (s * n) \div g, d |-> (s * d) \div g]

Float(i) == [t |-> "num", n |-> i, d |-> 1]

NaN == [t |-> "nan", n |-> 0, d |-> 1]

Text == [t |-> "str", n |-> 0, d |-> 1]

IsNum(x) == x.t = "num"

\* Float arithmetic: a NaN operand gives NaN.
Arith(x, y, n, d) == IF x.t = "num" /\ y.t = "num" THEN Num(n, d) ELSE NaN

Add(x, y) == Arith(x, y, x.n * y.d + y.n * x.d, x.d * y.d)

Sub(x, y) == Arith(x, y, x.n * y.d - y.n * x.d, x.d * y.d)

Mul(x, y) == Arith(x, y, x.n * y.n, x.d * y.d)

Div(x, y) == Arith(x, y, x.n * y.d, x.d * y.n)

RAbs(x) == Arith(x, x, Abs(x.n), x.d)

\* Python's < and > on floats: any comparison with a NaN operand is False.
Lt(x, y) == IsNum(x) /\ IsNum(y) /\ x.n * y.d < y.n * x.d

Gt(x, y) == Lt(y, x)

Le(x, y) == IsNum(x) /\ IsNum(y) /\ x.n * y.d <= y.n * x.d

Ge(x, y) == Le(y, x)

\* Python's min(a, b) returns a unless b < a; max(a, b) returns a unless b > a.
Min(x, y) == IF Lt(y, x) THEN y ELSE x

Max(x, y) == IF Gt(y, x) THEN y ELSE x

RECURSIVE Sum(_)
Sum(s) == IF s = <<>> THEN Float(0) ELSE Add(Head(s), Sum(Tail(s)))

Mean(s) == Div(Sum(s), Float(Len(s)))

\* Python's round(x, 2): the nearest multiple of 0.01, a tie going to the even one.
Round2(x) ==
    IF x.t # "num" THEN x ELSE
    LET m == x.n * 100
        q == m \div x.d
        r == m % x.d
        up == 2 * r > x.d \/ (2 * r = x.d /\ q % 2 = 1)
    IN  Num(IF up THEN q + 1 ELSE q, 100)

-----------------------------------------------------------------------------
(* decision_engine.py *)

\* dict.get(key, default)
Get(dict, key, default) == IF key \in DOMAIN dict THEN dict[key] ELSE default

FallbackWeights ==
    [technical |-> Num(1, 2), fundamental |-> Num(3, 10),
     sentiment |-> Num(1, 10), economic |-> Num(1, 10)]

WeightKey ==
    [technical |-> "technical_weight", fundamental |-> "fundamental_weight",
     sentiment |-> "sentiment_weight", economic |-> "economic_indicators_weight"]

Families == {"technical", "fundamental", "sentiment", "economic"}

\* Mutant of NormalizeWeights: the division by the sum is left out.
NormalizeWeightsNoDivision(w) == w

\* Lines 32-36: divide by the sum only when the sum is positive.
NormalizeWeights(w) ==
    LET weight_sum == Sum(<<w.technical, w.fundamental, w.sentiment, w.economic>>)
    IN  IF Gt(weight_sum, Float(0))
        THEN [k \in Families |-> Div(w[k], weight_sum)]
        ELSE w

\* Mutant of ConfiguredWeights: a weight that is text takes its own default and the
\* other weights are kept.
ConfiguredWeightsKeepingNumbers(config) ==
    IF "ANALYSIS_WEIGHTS" \notin DOMAIN config
    THEN FallbackWeights
    ELSE LET section == config["ANALYSIS_WEIGHTS"]
             raw == [k \in Families |-> Get(section, WeightKey[k], FallbackWeights[k])]
         IN  NormalizeWeights([k \in Families |->
                                  IF raw[k].t = "str" THEN FallbackWeights[k] ELSE raw[k]])

\* Lines 24-45: KeyError (no section) and ValueError (float() of text) select
\* the defaults; a missing key takes its default before normalization.
ConfiguredWeights(config) ==
    IF "ANALYSIS_WEIGHTS" \notin DOMAIN config
    THEN FallbackWeights
    ELSE LET section == config["ANALYSIS_WEIGHTS"]
             raw == [k \in Families |-> Get(section, WeightKey[k], FallbackWeights[k])]
         IN  IF \E k \in Families : raw[k].t = "str"
             THEN FallbackWeights
             ELSE NormalizeWeights(raw)

key_indicators == {"macd", "rsi", "price_vs_sma200", "bollinger"}

\* Mutant of TechScore: an empty SignalSet scores 0.
TechScoreEmptyIsZero(tech_signals) ==
    IF DOMAIN tech_signals = {}
    THEN Float(0)
    ELSE LET signal_count == Cardinality(DOMAIN tech_signals)
             bullish_signals == Cardinality({k \in DOMAIN tech_signals : tech_signals[k] > 0})
             bearish_signals == Cardinality({k \in DOMAIN tech_signals : tech_signals[k] < 0})
             key_bullish == Cardinality({k \in key_indicators \cap DOMAIN tech_signals :
                                            tech_signals[k] > 0})
             key_bearish == Cardinality({k \in key_indicators \cap DOMAIN tech_signals :
                                            tech_signals[k] < 0})
             weighted_bullish == Add(Float(bullish_signals), Num(key_bullish, 2))
             weighted_bearish == Add(Float(bearish_signals), Num(key_bearish, 2))
             denominator == Add(Float(signal_count), Num(Cardinality(key_indicators), 2))
             normalized_score ==
                 Add(Mul(Div(Sub(weighted_bullish, weighted_bearish), denominator), Float(50)),
                     Float(50))
         IN  Min(Max(normalized_score, Float(0)), Float(100))

\* Lines 55-81.
TechScore(tech_signals) ==
    IF DOMAIN tech_signals = {}
    THEN Float(50)
    ELSE LET signal_count == Cardinality(DOMAIN tech_signals)
             bullish_signals == Cardinality({k \in DOMAIN tech_signals : tech_signals[k] > 0})
             bearish_signals == Cardinality({k \in DOMAIN tech_signals : tech_signals[k] < 0})
             key_bullish == Cardinality({k \in key_indicators \cap DOMAIN tech_signals :
                                            tech_signals[k] > 0})
             key_bearish == Cardinality({k \in key_indicators \cap DOMAIN tech_signals :
                                            tech_signals[k] < 0})
             weighted_bullish == Add(Float(bullish_signals), Num(key_bullish, 2))
             weighted_bearish == Add(Float(bearish_signals), Num(key_bearish, 2))
             denominator == Add(Float(signal_count), Num(Cardinality(key_indicators), 2))
             normalized_score ==
                 Add(Mul(Div(Sub(weighted_bullish, weighted_bearish), denominator), Float(50)),
                     Float(50))
         IN  Min(Max(normalized_score, Float(0)), Float(100))

\* Mutant of Clamp: the upper and lower limits are left out.
ClampNoLimits(x) == x

\* min(max(x, 0), 100), lines 94, 99, 150.
Clamp(x) == Min(Max(x, Float(0)), Float(100))

Entry(fund_analysis, key, score) ==
    IF key \in DOMAIN fund_analysis THEN <<score>> ELSE <<>>

\* Mutant of Group: a group without metrics counts as a neutral 50.
GroupOrNeutral(signals) == IF signals = <<>> THEN <<Float(50)>> ELSE <<Mean(signals)>>

\* Lines 102-103, 116-117, 138-139, 156-157, 179-180: a group with at least one metric
\* appends the mean of its metrics' scores to fund_signals.
Group(signals) == IF signals = <<>> THEN <<>> ELSE <<Mean(signals)>>

\* Lines 88-103.
target_signals(fa) ==
    Entry(fa, "price_target_diff",
          Clamp(Mul(Div(Add(Get(fa, "price_target_diff", Float(0)), Float(20)), Float(40)), Float(100))))
    \o Entry(fa, "finnhub_target_diff",
          Clamp(Mul(Div(Add(Get(fa, "finnhub_target_diff", Float(0)), Float(20)), Float(40)), Float(100))))

\* Lines 105-117.
analyst_signals(fa) ==
    Entry(fa, "analyst_signal",
          Mul(Div(Add(Get(fa, "analyst_signal", Float(0)), Float(1)), Float(2)), Float(100)))
    \o Entry(fa, "analyst_consensus_score", Get(fa, "analyst_consensus_score", Float(0)))

\* Lines 119-139.
health_signals(fa) ==
    Entry(fa, "financial_health_score", Get(fa, "financial_health_score", Float(0)))
    \o Entry(fa, "DebtToEquity",
          Max(Float(0), Min(Float(100), Mul(Sub(Float(2), Get(fa, "DebtToEquity", Float(0))), Float(50)))))
    \o Entry(fa, "CurrentRatio",
          Max(Float(0), Min(Float(100), Mul(Get(fa, "CurrentRatio", Float(0)), Float(50)))))

\* Lines 141-157.
growth_signals(fa) ==
    Entry(fa, "growth_score", Get(fa, "growth_score", Float(0)))
    \o Entry(fa, "RevenueGrowthYoY",
          Clamp(Mul(Div(Add(Get(fa, "RevenueGrowthYoY", Float(0)), Float(20)), Float(60)), Float(100))))
    \o Entry(fa, "earnings_surprise_score", Get(fa, "earnings_surprise_score", Float(0)))

pe_score(pe) == Sub(Float(100), Min(Float(100), Mul(RAbs(Sub(pe, Float(15))), Float(5))))

\* Lines 159-180.
valuation_signals(fa) ==
    Entry(fa, "PERatio", pe_score(Get(fa, "PERatio", Float(0))))
    \o Entry(fa, "trailingPE", pe_score(Get(fa, "trailingPE", Float(0))))
    \o Entry(fa, "PEGRatio",
          Sub(Float(100),
              Min(Float(100), Mul(Max(Float(0), Sub(Get(fa, "PEGRatio", Float(0)), Float(1))), Float(50)))))

\* Lines 83-184.
FundScore(fa) ==
    LET fund_signals == Group(target_signals(fa)) \o Group(analyst_signals(fa))
                        \o Group(health_signals(fa)) \o Group(growth_signals(fa))
                        \o Group(valuation_signals(fa))
    IN  IF fund_signals = <<>> THEN Float(50) ELSE Mean(fund_signals)

\* The keys lines 21 and 91-177 do arithmetic on: text or None under any of them is a
\* TypeError.
ScoredKeys ==
    {"price_target_diff", "finnhub_target_diff", "analyst_signal", "analyst_consensus_score",
     "financial_health_score", "DebtToEquity", "CurrentRatio", "growth_score",
     "RevenueGrowthYoY", "earnings_surprise_score", "PERatio", "trailingPE", "PEGRatio",
     "economic_environment_score"}

\* Mutant of Thresholds: 'low' and 'high' exchanged.
ThresholdsExchanged(risk_tolerance) ==
    IF risk_tolerance = "high" THEN [buy |-> 75, sell |-> 25]
    ELSE IF risk_tolerance = "low" THEN [buy |-> 65, sell |-> 35]
    ELSE [buy |-> 70, sell |-> 30]

\* Lines 209-221.
Thresholds(risk_tolerance) ==
    IF risk_tolerance = "low" THEN [buy |-> 75, sell |-> 25]
    ELSE IF risk_tolerance = "high" THEN [buy |-> 65, sell |-> 35]
    ELSE [buy |-> 70, sell |-> 30]

\* Mutant of BuyConfidence: divided by the threshold, as the SELL confidence is.
BuyConfidenceOverThreshold(final_score, th) ==
    Mul(Div(Sub(final_score, Float(th.buy)), Float(th.buy)), Float(100))

\* Line 227.
BuyConfidence(final_score, th) ==
    Mul(Div(Sub(final_score, Float(th.buy)), Float(100 - th.buy)), Float(100))

\* Mutant of HoldConfidence: the distance is taken from the buy threshold.
HoldConfidenceFromBuy(final_score, th) ==
    Mul(Sub(Float(1), Div(RAbs(Sub(final_score, Float(th.buy))), Num(th.buy - th.sell, 2))),
        Float(100))

\* Lines 233-235.
HoldConfidence(final_score, th) ==
    LET mid_point == Num(th.buy + th.sell, 2)
    IN  Mul(Sub(Float(1), Div(RAbs(Sub(final_score, mid_point)), Num(th.buy - th.sell, 2))),
            Float(100))

\* Lines 223-235.
ActionAndConfidence(final_score, th) ==
    IF Ge(final_score, Float(th.buy))
    THEN [action |-> "BUY", confidence |-> BuyConfidence(final_score, th)]
    ELSE IF Le(final_score, Float(th.sell))
    THEN [action |-> "SELL",
          confidence |-> Mul(Div(Sub(Float(th.sell), final_score), Float(th.sell)), Float(100))]
    ELSE [action |-> "HOLD", confidence |-> HoldConfidence(final_score, th)]

\* Mutant of WeightedSum: the technical term is subtracted.
WeightedSumLessTechnical(weights, tech_score, fund_score, sent_score, economic_score) ==
    Sum(<<Mul(Sub(Float(0), tech_score), weights.technical),
          Mul(fund_score, weights.fundamental),
          Mul(sent_score, weights.sentiment),
          Mul(economic_score, weights.economic)>>)

\* Lines 189-198.
WeightedSum(weights, tech_score, fund_score, sent_score, economic_score) ==
    Sum(<<Mul(tech_score, weights.technical),
          Mul(fund_score, weights.fundamental),
          Mul(sent_score, weights.sentiment),
          Mul(economic_score, weights.economic)>>)

\* Mutant of NoData: an empty frame is not tested.
NoDataOnlyNone(data) == data = None

\* Line 7: data is None or data.empty.
NoData(data) == data = None \/ data.bars = 0

Callables ==
    {"calculate_technical_indicators", "calculate_signals", "analyze_fundamentals",
     "analyze_sentiment"}

\* Lines 7-29, 210: the callables make_decision invokes and the configuration it reads.
Invoked(data) == IF NoData(data) THEN {} ELSE Callables \cup {"config"}

Raise(exception) == [raised |-> exception]

Raised(r) == "raised" \in DOMAIN r

\* Lines 4-250.  data is None or a frame [bars, ...]; tech_signals, fund_analysis and
\* sentiment are what the callables calculate_signals, analyze_fundamentals and
\* analyze_sentiment returned.
make_decision(data, config, indicators, tech_signals, fund_analysis, sentiment) ==
    IF NoData(data)
    THEN [action |-> "NO DATA", confidence |-> Float(0), score |-> Float(50)]
    ELSE LET economic_score == Get(fund_analysis, "economic_environment_score", Float(50))
             weights == ConfiguredWeights(config)
             tech_score == TechScore(tech_signals)
             fund_score == FundScore(fund_analysis)
             sent_score == Mul(sentiment, Float(100))
             final_score ==
                 WeightedSum(weights, tech_score, fund_score, sent_score, economic_score)
             risk_tolerance == Get(config["PARAMETERS"], "risk_tolerance", "medium")
             ac == ActionAndConfidence(final_score, Thresholds(risk_tolerance))
         IN  IF \E k \in ScoredKeys \cap DOMAIN fund_analysis :
                    fund_analysis[k].t \in {"str", "numstr", "none"}
             THEN Raise("TypeError")
             ELSE IF "PARAMETERS" \notin DOMAIN config
             THEN Raise("KeyError")
             ELSE [action |-> ac.action,
                   confidence |-> Round2(ac.confidence),
                   score |-> Round2(final_score),
                   component_scores |->
                       [technical |-> Round2(tech_score),
                        fundamental |-> Round2(fund_score),
                        sentiment |-> Round2(sent_score),
                        economic |-> Round2(economic_score)],
                   analysis_results |->
                       [technical |-> tech_signals,
                        fundamental |-> fund_analysis,
                        sentiment |-> sentiment,
                        indicators |-> indicators]]

-----------------------------------------------------------------------------
(* technical_analysis.py *)

EmptyDict == <<>>

Series ==
    {"sma_20", "sma_50", "sma_200", "ema_12", "ema_26", "macd", "macd_signal", "macd_hist",
     "rsi", "bb_upper", "bb_middle", "bb_lower", "slowk", "slowd", "atr", "obv", "adx",
     "aroon_up", "aroon_down", "cci", "mfi", "trix"}

\* Lines 22-67: the number of bars at which the series' last element is first defined
\* (the indicator's lookback window, from its time periods, plus one).
MinBars ==
    [s \in Series |->
        CASE s = "sma_20" -> 20
          [] s = "sma_50" -> 50
          [] s = "sma_200" -> 200
          [] s = "ema_12" -> 12
          [] s = "ema_26" -> 26
          [] s \in {"macd", "macd_signal", "macd_hist"} -> (26 - 1) + (9 - 1) + 1
          [] s \in {"bb_upper", "bb_middle", "bb_lower"} -> 20
          [] s \in {"slowk", "slowd"} -> (14 - 1) + (3 - 1) + (3 - 1) + 1
          [] s = "obv" -> 1
          [] s = "adx" -> 2 * 14
          [] s = "cci" -> 14
          [] s = "trix" -> 3 * (30 - 1) + 2
          [] OTHER -> 14 + 1]

Scenarios == {"bull", "bear", "flat"}

\* The last-bar indicator values of three markets, the close being 100.
Market(scenario) ==
    [s \in Series |->
        LET up == scenario = "bull"
            down == scenario = "bear"
        IN  CASE s \in {"sma_20", "ema_12", "ema_26"} -> Float(IF up THEN 95 ELSE IF down THEN 105 ELSE 100)
              [] s = "sma_50" -> Float(IF up THEN 90 ELSE IF down THEN 110 ELSE 100)
              [] s = "sma_200" -> Float(IF up THEN 80 ELSE IF down THEN 120 ELSE 100)
              [] s \in {"macd", "macd_hist", "trix"} -> Float(IF up THEN 2 ELSE IF down THEN -2 ELSE 0)
              [] s = "macd_signal" -> Float(IF up THEN 1 ELSE IF down THEN -1 ELSE 0)
              [] s \in {"rsi", "mfi", "slowd"} -> Float(IF up THEN 10 ELSE IF down THEN 90 ELSE 50)
              [] s = "slowk" -> Float(IF up THEN 15 ELSE IF down THEN 85 ELSE 50)
              [] s = "bb_upper" -> Float(IF down THEN 95 ELSE 120)
              [] s = "bb_middle" -> Float(IF up THEN 110 ELSE IF down THEN 90 ELSE 100)
              [] s = "bb_lower" -> Float(IF up THEN 105 ELSE 80)
              [] s = "adx" -> Float(IF up \/ down THEN 40 ELSE 20)
              [] s = "aroon_up" -> Float(IF up THEN 80 ELSE 20)
              [] s = "aroon_down" -> Float(IF up THEN 20 ELSE 80)
              [] s = "cci" -> Float(IF up THEN -150 ELSE IF down THEN 150 ELSE 0)
              [] OTHER -> Float(1)]

\* Lines 7-73.  data.columns is false for a frame without the OHLCV columns
\* (the KeyError is caught at line 71); Market(data.market)[s] is the value the
\* indicator library computes for the last bar of series s once its window is filled.
calculate_technical_indicators(data) ==
    IF data = None \/ data.bars = 0 THEN EmptyDict
    ELSE IF ~data.columns THEN EmptyDict
    ELSE IF data.bars > 30
         THEN [s \in Series |-> IF data.bars >= MinBars[s] THEN Market(data.market)[s] ELSE NaN]
         ELSE EmptyDict

Has(indicators, keys) == keys \subseteq DOMAIN indicators

\* Lines 86-99.
MovingAverageSignals(ind, close_price) ==
    IF Has(ind, {"sma_20", "sma_50"})
    THEN ("ma_cross" :> (IF Gt(ind["sma_20"], ind["sma_50"]) THEN 1 ELSE -1))
         @@ ("price_vs_sma50" :> (IF Gt(close_price, ind["sma_50"]) THEN 1 ELSE -1))
         @@ (IF "sma_200" \in DOMAIN ind
             THEN "price_vs_sma200" :> (IF Gt(close_price, ind["sma_200"]) THEN 1 ELSE -1)
             ELSE EmptyDict)
    ELSE EmptyDict

\* Lines 101-111.
MacdSignals(ind) ==
    IF Has(ind, {"macd", "macd_signal"})
    THEN ("macd" :> (IF Gt(ind["macd"], ind["macd_signal"]) THEN 1 ELSE -1))
         @@ (IF "macd_hist" \in DOMAIN ind
             THEN "macd_hist" :> (IF Gt(ind["macd_hist"], Float(0)) THEN 1 ELSE -1)
             ELSE EmptyDict)
    ELSE EmptyDict

\* Lines 113-121.
RsiSignal(ind) ==
    IF "rsi" \in DOMAIN ind
    THEN "rsi" :> (IF Lt(ind["rsi"], Float(30)) THEN 1
                   ELSE IF Gt(ind["rsi"], Float(70)) THEN -1 ELSE 0)
    ELSE EmptyDict

\* Lines 123-132.
BollingerSignal(ind, close_price) ==
    IF Has(ind, {"bb_upper", "bb_middle", "bb_lower"})
    THEN "bollinger" :> (IF Gt(close_price, ind["bb_upper"]) THEN -1
                         ELSE IF Lt(close_price, ind["bb_lower"]) THEN 1 ELSE 0)
    ELSE EmptyDict

\* Lines 134-146.
StochasticSignals(ind) ==
    IF Has(ind, {"slowk", "slowd"})
    THEN ("stoch" :> (IF Lt(ind["slowk"], Float(20)) /\ Lt(ind["slowd"], Float(20)) THEN 1
                      ELSE IF Gt(ind["slowk"], Float(80)) /\ Gt(ind["slowd"], Float(80))
                           THEN -1 ELSE 0))
         @@ ("stoch_cross" :> (IF Gt(ind["slowk"], ind["slowd"]) THEN 1 ELSE -1))
    ELSE EmptyDict

\* Lines 148-151.
AdxSignal(ind) ==
    IF "adx" \in DOMAIN ind
    THEN "trend_strength" :> (IF Gt(ind["adx"], Float(25)) THEN 1 ELSE 0)
    ELSE EmptyDict

\* Lines 153-157.
AroonSignal(ind) ==
    IF Has(ind, {"aroon_up", "aroon_down"})
    THEN "aroon" :> (IF Gt(ind["aroon_up"], ind["aroon_down"]) THEN 1 ELSE -1)
    ELSE EmptyDict

\* Lines 159-162.
CciSignal(ind) ==
    IF "cci" \in DOMAIN ind
    THEN "cci" :> (IF Lt(ind["cci"], Float(-100)) THEN 1
                   ELSE IF Gt(ind["cci"], Float(100)) THEN -1 ELSE 0)
    ELSE EmptyDict

\* Lines 164-167.
MfiSignal(ind) ==
    IF "mfi" \in DOMAIN ind
    THEN "mfi" :> (IF Lt(ind["mfi"], Float(20)) THEN 1
                   ELSE IF Gt(ind["mfi"], Float(80)) THEN -1 ELSE 0)
    ELSE EmptyDict

\* Lines 169-172.
TrixSignal(ind) ==
    IF "trix" \in DOMAIN ind
    THEN "trix" :> (IF Gt(ind["trix"], Float(0)) THEN 1
                    ELSE IF Lt(ind["trix"], Float(0)) THEN -1 ELSE 0)
    ELSE EmptyDict

\* Lines 75-178.
calculate_signals(indicators, data) ==
    IF DOMAIN indicators = {} \/ data = None \/ data.bars = 0 THEN EmptyDict
    ELSE IF ~data.columns THEN EmptyDict
    ELSE MovingAverageSignals(indicators, data.close) @@ MacdSignals(indicators)
         @@ RsiSignal(indicators) @@ BollingerSignal(indicators, data.close)
         @@ StochasticSignals(indicators) @@ AdxSignal(indicators)
         @@ AroonSignal(indicators) @@ CciSignal(indicators)
         @@ MfiSignal(indicators) @@ TrixSignal(indicators)

-----------------------------------------------------------------------------
(* sentiment_analysis.py *)

RECURSIVE Polarities(_)
Polarities(news_data) ==
    IF news_data = <<>> THEN <<>>
    ELSE (IF "headline" \in DOMAIN Head(news_data)
          THEN <<Head(news_data)["headline"]>> ELSE <<>>)
         \o Polarities(Tail(news_data))

\* Mutant of analyze_sentiment: the mean polarity is returned as it is.
analyze_sentiment_unnormalised(news_data) ==
    IF Polarities(news_data) = <<>>
    THEN Num(1, 2)
    ELSE Mean(Polarities(news_data))

\* Lines 6-25.  A news item's headline is modelled by the polarity the text-polarity
\* library gives it; headlines are strings, as the news provider delivers them, so the
\* polarity of each is defined and the handler of lines 23-25 is not entered.
analyze_sentiment(news_data) ==
    IF Polarities(news_data) = <<>>
    THEN Num(1, 2)
    ELSE Div(Add(Mean(Polarities(news_data)), Float(1)), Float(2))

-----------------------------------------------------------------------------
(* fundamental_analysis.py *)

\* Values providers deliver besides floats: None, a string float() parses, the strings
\* 'None' and '' (Text itself standing for any other string), and a bool.
PyNone == [t |-> "none", n |-> 0, d |-> 1]

NumStr(x) == [t |-> "numstr", n |-> x.n, d |-> x.d]

NoneText == [t |-> "str", n |-> 1, d |-> 1]

Bool(b) == [t |-> "bool", n |-> (IF b THEN 1 ELSE 0), d |-> 1]

\* float(v) succeeds on a float and on a numeric string.
Parses(v) == v.t \in {"num", "nan", "numstr"}

ToFloat(v) == IF v.t = "numstr" THEN [t |-> "num", n |-> v.n, d |-> v.d] ELSE v

\* The operands of an arithmetic operator or an ordering that does not raise TypeError.
Numeric(v) == v.t \in {"num", "nan"}

\* The result of a block that assigns keys to results until it finishes or raises.
Done(results) == [results |-> results, raised |-> FALSE]

Failed(results) == [results |-> results, raised |-> TRUE]

YahooMetrics ==
    {"trailingPE", "forwardPE", "priceToBook", "pegRatio", "debtToEquity", "returnOnEquity",
     "returnOnAssets", "profitMargins", "targetMeanPrice", "recommendationMean"}

\* Lines 27-29.
YahooPeTrend(results) ==
    IF {"trailingPE", "forwardPE"} \subseteq DOMAIN results
    THEN LET f == results["forwardPE"]
             t == results["trailingPE"]
         IN  IF Numeric(f) /\ Numeric(t) THEN Done(("pe_trend" :> Bool(Lt(f, t))) @@ results)
             ELSE IF f.t = "str" /\ t.t = "str"
                  THEN Done(("pe_trend" :> Bool(f.n < t.n)) @@ results)
                  ELSE Failed(results)
    ELSE Done(results)

\* Lines 31-34.
YahooTargetDiff(info, results) ==
    IF "targetMeanPrice" \in DOMAIN results /\ "currentPrice" \in DOMAIN info
    THEN LET current == info["currentPrice"]
             target == results["targetMeanPrice"]
         IN  IF Numeric(current) /\ Numeric(target) /\ current # Float(0)
             THEN Done(("price_target_diff" :>
                           Mul(Div(Sub(target, current), current), Float(100))) @@ results)
             ELSE Failed(results)
    ELSE Done(results)

\* Lines 36-39.
YahooAnalystSignal(results) ==
    IF "recommendationMean" \in DOMAIN results
    THEN LET rec == results["recommendationMean"]
         IN  IF Numeric(rec)
             THEN Done(("analyst_signal" :>
                           Sub(Float(1), Div(Sub(rec, Float(1)), Float(2)))) @@ results)
             ELSE Failed(results)
    ELSE Done(results)

\* Lines 10-41: an exception ends the block, the keys assigned before it staying.
YahooResults(fundamental_data) ==
    IF "info" \in DOMAIN fundamental_data
    THEN LET info == fundamental_data["info"]
             copied == [m \in {k \in YahooMetrics \cap DOMAIN info : info[k] # PyNone} |->
                           info[m]]
             trend == YahooPeTrend(copied)
             target == YahooTargetDiff(info, trend.results)
             signal == YahooAnalystSignal(target.results)
         IN  IF trend.raised THEN trend.results
             ELSE IF target.raised THEN target.results
             ELSE signal.results
    ELSE EmptyDict

AVMetrics ==
    {"PERatio", "PEGRatio", "BookValue", "DividendPerShare", "DividendYield", "EPS",
     "ProfitMargin", "OperatingMarginTTM", "ReturnOnAssetsTTM", "ReturnOnEquityTTM",
     "RevenueTTM", "GrossProfitTTM", "DilutedEPSTTM", "QuarterlyEarningsGrowthYOY",
     "QuarterlyRevenueGrowthYOY", "AnalystTargetPrice", "TrailingPE", "ForwardPE",
     "PriceToSalesRatioTTM", "PriceToBookRatio", "EVToRevenue", "EVToEBITDA", "Beta",
     "52WeekHigh", "52WeekLow"}

\* Lines 145-165: a metric that float() rejects is kept as its text.
AVOverview(avd) ==
    IF "overview" \in DOMAIN avd
    THEN LET overview == avd["overview"]
         IN  [m \in {k \in AVMetrics \cap DOMAIN overview : overview[k] # NoneText} |->
                 ToFloat(overview[m])]
    ELSE EmptyDict

\* The annualReports of a statement, if the statement is held and has any.
AnnualReports(avd, statement) ==
    IF statement \in DOMAIN avd /\ "annualReports" \in DOMAIN avd[statement]
    THEN avd[statement]["annualReports"]
    ELSE <<>>

\* float(report[field]) raises KeyError or ValueError.
FloatRaises(report, field) == field \notin DOMAIN report \/ ~Parses(report[field])

\* (current - previous) / previous * 100 of a field of the two latest reports.
GrowthYoY(reports, field) ==
    LET current == ToFloat(reports[1][field])
        previous == ToFloat(reports[2][field])
    IN  Mul(Div(Sub(current, previous), previous), Float(100))

GrowthRaises(reports, field) ==
    \/ FloatRaises(reports[1], field)
    \/ FloatRaises(reports[2], field)
    \/ ToFloat(reports[2][field]) = Float(0)

\* Lines 168-183.
AVIncome(avd) ==
    LET reports == AnnualReports(avd, "income_statement")
    IN  IF Len(reports) > 1
        THEN IF GrowthRaises(reports, "totalRevenue") \/ GrowthRaises(reports, "netIncome")
             THEN Failed(EmptyDict)
             ELSE Done(("RevenueGrowthYoY" :> GrowthYoY(reports, "totalRevenue"))
                       @@ ("NetIncomeGrowthYoY" :> GrowthYoY(reports, "netIncome")))
        ELSE Done(EmptyDict)

\* numerator / denominator of two fields of the latest report, when both are there and
\* the denominator is positive (lines 192-196, 199-203).
AVRatio(reports, key, numerator, denominator) ==
    IF Len(reports) > 0 /\ {numerator, denominator} \subseteq DOMAIN reports[1]
    THEN IF FloatRaises(reports[1], numerator) \/ FloatRaises(reports[1], denominator)
         THEN Failed(EmptyDict)
         ELSE IF Gt(ToFloat(reports[1][denominator]), Float(0))
              THEN Done(key :> Div(ToFloat(reports[1][numerator]),
                                   ToFloat(reports[1][denominator])))
              ELSE Done(EmptyDict)
    ELSE Done(EmptyDict)

\* Lines 206-215.
AVCashFlow(avd) ==
    LET reports == AnnualReports(avd, "cash_flow")
    IN  IF Len(reports) > 0
           /\ {"operatingCashflow", "capitalExpenditures"} \subseteq DOMAIN reports[1]
        THEN IF FloatRaises(reports[1], "operatingCashflow")
                \/ FloatRaises(reports[1], "capitalExpenditures")
             THEN Failed(EmptyDict)
             ELSE Done("FreeCashFlow" :> Sub(ToFloat(reports[1]["operatingCashflow"]),
                                             ToFloat(reports[1]["capitalExpenditures"])))
        ELSE Done(EmptyDict)

HealthKeys ==
    {"ReturnOnEquityTTM", "RevenueGrowthYoY", "PERatio", "DebtToEquity", "CurrentRatio"}

\* The points lines 222-260 give one metric.
HealthPoints(key, v) ==
    CASE key = "ReturnOnEquityTTM" ->
             IF Gt(v, Float(15)) THEN 2 ELSE IF Gt(v, Float(10)) THEN 1 ELSE 0
      [] key = "RevenueGrowthYoY" ->
             IF Gt(v, Float(20)) THEN 2 ELSE IF Gt(v, Float(10)) THEN 1 ELSE 0
      [] key = "PERatio" -> IF Lt(Float(5), v) /\ Lt(v, Float(15)) THEN 1 ELSE 0
      [] key = "DebtToEquity" ->
             IF Lt(v, Num(1, 2)) THEN 2 ELSE IF Lt(v, Float(1)) THEN 1 ELSE 0
      [] key = "CurrentRatio" -> IF Gt(v, Num(3, 2)) THEN 1 ELSE 0

RECURSIVE Points(_, _)
Points(keys, results) ==
    IF keys = {} THEN 0
    ELSE LET k == CHOOSE x \in keys : TRUE
         IN  HealthPoints(k, results[k]) + Points(keys \ {k}, results)

\* Lines 217-264.
AVHealth(results) ==
    LET present == HealthKeys \cap DOMAIN results
        count == Cardinality(present)
    IN  IF \E k \in present : ~Numeric(results[k]) THEN Failed(EmptyDict)
        ELSE IF count >= 3
             THEN Done("FinancialHealthScore" :>
                          Mul(Num(Points(present, results), count * 2), Float(100)))
             ELSE Done(EmptyDict)

\* Lines 135-270: any exception discards every result.
analyze_alpha_vantage_data(alpha_vantage_data) ==
    IF DOMAIN alpha_vantage_data = {} THEN EmptyDict
    ELSE LET income == AVIncome(alpha_vantage_data)
             balance == AnnualReports(alpha_vantage_data, "balance_sheet")
             debt == AVRatio(balance, "DebtToEquity", "shortLongTermDebtTotal",
                             "totalShareholderEquity")
             liquidity == AVRatio(balance, "CurrentRatio", "totalCurrentAssets",
                                  "totalCurrentLiabilities")
             cash == AVCashFlow(alpha_vantage_data)
             results == cash.results @@ liquidity.results @@ debt.results
                        @@ income.results @@ AVOverview(alpha_vantage_data)
             health == AVHealth(results)
         IN  IF income.raised \/ debt.raised \/ liquidity.raised \/ cash.raised
                \/ health.raised
             THEN EmptyDict
             ELSE health.results @@ results

\* Lines 43-68.
AlphaVantageResults(alpha_vantage_data) ==
    LET av_results == analyze_alpha_vantage_data(alpha_vantage_data)
        capped(x) == Min(Max(x, Float(-50)), Float(50))
        rev_score ==
            Mul(Div(Add(capped(av_results["RevenueGrowthYoY"]), Float(50)), Float(100)),
                Float(100))
        inc_score ==
            Mul(Div(Add(capped(av_results["NetIncomeGrowthYoY"]), Float(50)), Float(100)),
                Float(100))
    IN  (IF {"RevenueGrowthYoY", "NetIncomeGrowthYoY"} \subseteq DOMAIN av_results
         THEN "growth_score" :> Add(Mul(rev_score, Num(6, 10)), Mul(inc_score, Num(4, 10)))
         ELSE EmptyDict)
        @@ (IF "FinancialHealthScore" \in DOMAIN av_results
            THEN "financial_health_score" :> av_results["FinancialHealthScore"]
            ELSE EmptyDict)
        @@ av_results

\* Lines 74-82.  data['Close'].iloc[-1] raises on a frame without bars or columns.
FinnhubTargetDiff(fundamental_data, data) ==
    IF "finnhub_price_target" \in DOMAIN fundamental_data
       /\ "targetMean" \in DOMAIN fundamental_data["finnhub_price_target"]
    THEN LET target_mean == fundamental_data["finnhub_price_target"]["targetMean"]
         IN  IF data = None \/ data.bars = 0 \/ ~data.columns \/ ~Numeric(target_mean)
             THEN Failed(EmptyDict)
             ELSE Done("finnhub_target_diff" :>
                          Mul(Div(Sub(target_mean, data.close), data.close), Float(100)))
    ELSE Done(EmptyDict)

Ratings == <<"strongBuy", "buy", "hold", "sell", "strongSell">>

RatingValue == <<100, 75, 50, 25, 0>>

\* Lines 85-99: the most recent recommendation trend.
FinnhubConsensus(fundamental_data) ==
    IF "finnhub_recommendations" \in DOMAIN fundamental_data
       /\ fundamental_data["finnhub_recommendations"] # <<>>
    THEN LET recs == fundamental_data["finnhub_recommendations"][1]
             weighted == Sum([i \in 1..5 |-> Mul(recs[Ratings[i]], Float(RatingValue[i]))])
             total_ratings == Sum([i \in 1..5 |-> recs[Ratings[i]]])
         IN  IF \A i \in 1..5 : Ratings[i] \in DOMAIN recs
             THEN IF \E i \in 1..5 : ~Numeric(recs[Ratings[i]]) THEN Failed(EmptyDict)
                  ELSE IF Gt(total_ratings, Float(0))
                       THEN Done("analyst_consensus_score" :> Div(weighted, total_ratings))
                       ELSE Done(EmptyDict)
             ELSE Done(EmptyDict)
    ELSE Done(EmptyDict)

\* earnings[:4]
FirstFour(earnings) == SubSeq(earnings, 1, IF Len(earnings) < 4 THEN Len(earnings) ELSE 4)

\* Lines 102-117: the surprises of the last four quarters that carry one.
FinnhubSurprise(fundamental_data) ==
    IF "finnhub_earnings" \in DOMAIN fundamental_data
       /\ fundamental_data["finnhub_earnings"] # <<>>
    THEN LET quarters == FirstFour(fundamental_data["finnhub_earnings"])
             surprises == SelectSeq(quarters, LAMBDA q : "surprisePercent" \in DOMAIN q)
             avg_surprise == Mean([i \in 1..Len(surprises) |-> surprises[i]["surprisePercent"]])
         IN  IF \E i \in 1..Len(surprises) : ~Numeric(surprises[i]["surprisePercent"])
             THEN Failed(EmptyDict)
             ELSE IF Len(surprises) > 0
                  THEN Done("earnings_surprise_score" :>
                               Min(Max(Add(Float(50), Mul(avg_surprise, Float(5))), Float(0)),
                                   Float(100)))
                  ELSE Done(EmptyDict)
    ELSE Done(EmptyDict)

\* Lines 70-120: an exception ends the block, the keys assigned before it staying.
FinnhubResults(fundamental_data, data) ==
    LET target == FinnhubTargetDiff(fundamental_data, data)
        consensus == FinnhubConsensus(fundamental_data)
        surprise == FinnhubSurprise(fundamental_data)
    IN  IF target.raised THEN EmptyDict
        ELSE IF consensus.raised THEN target.results
        ELSE surprise.results @@ consensus.results @@ target.results

EconomicIndicators == <<"fed_rate", "gdp_growth", "inflation", "unemployment">>

\* Lines 300-305.
indicator_mapping ==
    [fed_rate |-> [threshold |-> Num(9, 2), impact |-> -1],
     gdp_growth |-> [threshold |-> Float(2), impact |-> 1],
     inflation |-> [threshold |-> Float(3), impact |-> -1],
     unemployment |-> [threshold |-> Float(4), impact |-> -1]]

\* Mutant of Evaluate: every indicator is taken as higher-is-good.
EvaluateAsPositive(indicator_name, value) ==
    IF Gt(value, indicator_mapping[indicator_name].threshold) THEN 1 ELSE -1

\* Lines 313-322: what one present indicator adds to economic_score.
Evaluate(indicator_name, value) ==
    LET indicator_data == indicator_mapping[indicator_name]
    IN  IF indicator_data.impact > 0
        THEN (IF Gt(value, indicator_data.threshold) THEN 1 ELSE -1)
        ELSE (IF Gt(value, indicator_data.threshold) THEN -1 ELSE 1)

\* The indicators of the mapping, up to the i-th, that the response holds.
PresentUpTo(indicators, i) ==
    {j \in 1..i : EconomicIndicators[j] \in DOMAIN indicators}

RECURSIVE Tally(_, _)
Tally(indicators, present) ==
    IF present = {} THEN 0
    ELSE LET j == CHOOSE x \in present : TRUE
         IN  Evaluate(EconomicIndicators[j], indicators[EconomicIndicators[j]])
             + Tally(indicators, present \ {j})

\* Lines 291-329: <name>_impact records the running economic_score.
EconomicResults(indicators) ==
    LET present == PresentUpTo(indicators, 4)
        count == Cardinality(present)
        impacts == [k \in {EconomicIndicators[j] \o "_impact" : j \in present} |->
                       LET j == CHOOSE x \in present : EconomicIndicators[x] \o "_impact" = k
                       IN  Float(Tally(indicators, PresentUpTo(indicators, j)))]
    IN  IF \E j \in present : ~Numeric(indicators[EconomicIndicators[j]])
        THEN Failed(EmptyDict)
        ELSE IF count > 0
             THEN Done(("economic_environment_score" :>
                           Add(Mul(Num(Tally(indicators, present), count), Float(50)), Float(50)))
                       @@ impacts)
             ELSE Done(impacts)

\* Lines 272-335: any exception discards every result.
analyze_financial_datasets_data(financial_datasets_data) ==
    IF DOMAIN financial_datasets_data = {} THEN EmptyDict
    ELSE LET metrics ==
                 IF "financials" \in DOMAIN financial_datasets_data
                    /\ "metrics" \in DOMAIN financial_datasets_data["financials"]
                 THEN financial_datasets_data["financials"]["metrics"]
                 ELSE EmptyDict
             economic ==
                 IF "economic_indicators" \in DOMAIN financial_datasets_data
                 THEN EconomicResults(financial_datasets_data["economic_indicators"])
                 ELSE Done(EmptyDict)
         IN  IF economic.raised THEN EmptyDict ELSE economic.results @@ metrics

\* Mutant of analyze_fundamentals: for a key of several providers the earliest merged
\* value is kept.
analyze_fundamentals_keeping_first(providers, data) ==
    YahooResults(providers.fundamental_data)
    @@ (IF providers.alpha_vantage_enabled
        THEN AlphaVantageResults(providers.alpha_vantage_data)
        ELSE EmptyDict)
    @@ (IF providers.finnhub_enabled
        THEN FinnhubResults(providers.fundamental_data, data)
        ELSE EmptyDict)
    @@ (IF providers.financial_datasets_enabled
        THEN analyze_financial_datasets_data(providers.financial_datasets_data)
        ELSE EmptyDict)

\* Lines 4-133.  providers holds the companion's fundamental_data, alpha_vantage_data and
\* financial_datasets_data and the three enabled flags; a later provider's value
\* replaces an earlier one's under the same key.
analyze_fundamentals(providers, data) ==
    (IF providers.financial_datasets_enabled
     THEN analyze_financial_datasets_data(providers.financial_datasets_data)
     ELSE EmptyDict)
    @@ (IF providers.finnhub_enabled
        THEN FinnhubResults(providers.fundamental_data, data)
        ELSE EmptyDict)
    @@ (IF providers.alpha_vantage_enabled
        THEN AlphaVantageResults(providers.alpha_vantage_data)
        ELSE EmptyDict)
    @@ YahooResults(providers.fundamental_data)

-----------------------------------------------------------------------------
(* main.py: the engine as StockTradingCompanion wires it *)

\* config_manager.py lines 20-39: the configuration load_config writes when none exists.
DefaultConfig ==
    [ANALYSIS_WEIGHTS |->
        ("technical_weight" :> Num(1, 2)) @@ ("fundamental_weight" :> Num(3, 10))
        @@ ("sentiment_weight" :> Num(1, 10)) @@ ("economic_indicators_weight" :> Num(1, 10)),
     PARAMETERS |-> ("risk_tolerance" :> "medium")]

\* What the callable calculate_technical_indicators returns: the bound method of
\* main.py lines 62-63, or a caller-supplied result.
IndicatorsOf(a) ==
    IF a.calc.kind = "data" THEN calculate_technical_indicators(a.data)
    ELSE IF a.calc.kind = "indicators" THEN a.calc.indicators
    ELSE EmptyDict

\* What the callable calculate_signals returns: the bound method of main.py lines
\* 65-66, or a caller-supplied SignalSet.
SignalsOf(a) ==
    IF a.calc.kind = "signals" THEN a.calc.signals
    ELSE calculate_signals(IndicatorsOf(a), a.data)

\* What the callable analyze_fundamentals returns: the bound method of main.py lines
\* 71-76 on the provider data held, or a caller-supplied mapping.
FundOf(a) ==
    IF a.providers = None THEN a.fund_analysis
    ELSE analyze_fundamentals(a.providers, a.data)

\* main.py lines 84-89.
Decide(a) ==
    make_decision(a.data, a.config, IndicatorsOf(a), SignalsOf(a), FundOf(a),
                  analyze_sentiment(a.news))

-----------------------------------------------------------------------------
(* Inputs *)

MaxBars == 201

MaxOther == 1

MaxFundKeys == 2

MaxScale == 2

Frame(bars, scenario, columns) ==
    [bars |-> bars, columns |-> columns, close |-> Float(100), market |-> scenario]

Frames ==
    {Frame(b, s, TRUE) : b \in 0..MaxBars, s \in Scenarios}
    \cup {Frame(b, "flat", FALSE) : b \in {1, 31}}

LoadedFrame == Frame(MaxBars, "flat", TRUE)

\* All dicts with exactly the keys K and the value of key k in V[k].
RECURSIVE TotalDicts(_, _)
TotalDicts(K, V) ==
    IF K = {} THEN {EmptyDict}
    ELSE LET k == CHOOSE x \in K : TRUE
         IN  {(k :> v) @@ d : v \in V[k], d \in TotalDicts(K \ {k}, V)}

\* All dicts with keys among K and the value of key k in V[k].
Dicts(K, V) == UNION {TotalDicts(S, V) : S \in SUBSET K}

Levels ==
    [s \in Series |->
        {NaN} \cup
        (CASE s \in {"sma_20", "sma_50", "sma_200", "bb_upper", "bb_middle", "bb_lower"} ->
                 {Float(90), Float(110)}
           [] s \in {"macd", "macd_signal", "macd_hist", "cci", "trix"} ->
                 {Float(-150), Float(0), Float(150)}
           [] OTHER -> {Float(10), Float(25), Float(90)})]

\* The series each rule of calculate_signals reads.
RuleSeries ==
    {{"sma_20", "sma_50", "sma_200"}, {"macd", "macd_signal", "macd_hist"}, {"rsi"},
     {"bb_upper", "bb_middle", "bb_lower"}, {"slowk", "slowd"}, {"adx"},
     {"aroon_up", "aroon_down"}, {"cci"}, {"mfi"}, {"trix"}}

IndicatorDicts == UNION {Dicts(G, Levels) : G \in RuleSeries}

OtherSignals == <<"ma_cross", "stoch", "trix", "aroon", "cci", "mfi">>

SignalNames == key_indicators \cup {OtherSignals[i] : i \in 1..MaxOther}

SignalSets == Dicts(SignalNames, [k \in SignalNames |-> {-1, 0, 1}])

WeightValues == {Float(0), Float(1), Float(2), Float(-1), Text}

WeightKeys == {WeightKey[k] : k \in Families}

WeightSections == Dicts(WeightKeys, [k \in WeightKeys |-> WeightValues])

ValidWeightSections ==
    Dicts(WeightKeys, [k \in WeightKeys |-> {Float(0), Float(1), Float(2)}])

RiskValues == {"low", "medium", "high", "extreme"}

ParameterSections == Dicts({"risk_tolerance"}, [k \in {"risk_tolerance"} |-> RiskValues])

Configs ==
    {[ANALYSIS_WEIGHTS |-> w, PARAMETERS |-> DefaultConfig.PARAMETERS] : w \in WeightSections}
    \cup {[ANALYSIS_WEIGHTS |-> w, PARAMETERS |-> p] :
            w \in ValidWeightSections \cup {DefaultConfig.ANALYSIS_WEIGHTS},
            p \in ParameterSections}
    \cup {[PARAMETERS |-> p] : p \in ParameterSections}
    \cup {[ANALYSIS_WEIGHTS |-> DefaultConfig.ANALYSIS_WEIGHTS], EmptyDict}

\* The values each scored metric takes: the ends of its range and one inside.
FundValues ==
    [k \in ScoredKeys |->
        CASE k \in {"price_target_diff", "finnhub_target_diff", "RevenueGrowthYoY"} ->
                 {Float(-50), Float(10), Float(50)}
          [] k = "analyst_signal" -> {Float(-1), Num(1, 2), Float(1)}
          [] k \in {"DebtToEquity", "CurrentRatio", "PEGRatio"} -> {Float(0), Num(3, 2), Float(5)}
          [] k \in {"PERatio", "trailingPE"} -> {Float(-10), Float(15), Float(60)}
          [] OTHER -> {Float(0), Float(20), Float(100)}]

FundDicts ==
    UNION {TotalDicts(K, FundValues) :
              K \in {S \in SUBSET ScoredKeys : Cardinality(S) <= MaxFundKeys}}

TextDicts ==
    {(k :> Text) @@ d : k \in ScoredKeys, d \in Dicts({"PERatio"}, FundValues)}

Item(polarity) == [headline |-> polarity]

NoHeadline == [url |-> ""]

NewsLists ==
    {<<>>, <<NoHeadline>>, <<Item(Float(1))>>, <<Item(Float(-1))>>,
     <<Item(Num(1, 2)), NoHeadline, Item(Float(0))>>}

\* Four sets of component inputs: (technical, fundamental, sentiment, economic) scores
\* (75, 20, 100, 0), (100, 100, 100, 100), (0, 0, 0, 0) and (50, 50, 50, 50).
Profiles ==
    {[signals |-> ("rsi" :> 1),
      fund_analysis |-> ("financial_health_score" :> Float(20))
                        @@ ("economic_environment_score" :> Float(0)),
      news |-> <<Item(Float(1))>>],
     [signals |-> [k \in key_indicators |-> 1],
      fund_analysis |-> ("PERatio" :> Float(15)) @@ ("economic_environment_score" :> Float(100)),
      news |-> <<Item(Float(1))>>],
     [signals |-> [k \in key_indicators |-> -1],
      fund_analysis |-> ("PERatio" :> Float(60)) @@ ("economic_environment_score" :> Float(0)),
      news |-> <<Item(Float(-1))>>],
     [signals |-> EmptyDict, fund_analysis |-> EmptyDict, news |-> <<>>]}

Scales == {Num(1, 2)} \cup {Float(k) : k \in 2..MaxScale}

\* An input of the engine; scales are the scalars the configured weights are then
\* multiplied by.
Args(data, config, calc, fund_analysis, news) ==
    [data |-> data, config |-> config, calc |-> calc, fund_analysis |-> fund_analysis,
     providers |-> None, news |-> news, scales |-> {}]

Stub(signals) == [kind |-> "signals", signals |-> signals]

DataInput(d) == Args(d, DefaultConfig, [kind |-> "data"], EmptyDict, <<>>)

IndicatorInput(i) ==
    Args(LoadedFrame, DefaultConfig, [kind |-> "indicators", indicators |-> i], EmptyDict, <<>>)

\* Indicators handed over beside a frame without a Close column, which makes
\* calculate_signals raise.
UnreadableInputs ==
    {[IndicatorInput(i) EXCEPT !.data = Frame(b, "flat", FALSE)] :
        i \in {"rsi" :> Float(25), ("sma_20" :> Float(110)) @@ ("sma_50" :> Float(90))},
        b \in {1, 31}}

SignalInput(s) == Args(LoadedFrame, DefaultConfig, Stub(s), EmptyDict, <<>>)

ConfigInput(c, p) ==
    [Args(LoadedFrame, c, Stub(p.signals), p.fund_analysis, p.news) EXCEPT !.scales = Scales]

FundInput(f) == Args(LoadedFrame, DefaultConfig, Stub(EmptyDict), f, <<>>)

NewsInput(n) == Args(LoadedFrame, DefaultConfig, Stub(EmptyDict), EmptyDict, n)

\* The composite scores the threshold inputs produce, in thousandths: the bounds of the
\* range, the thresholds of the three risk levels, and values between and beside them.
ScoreThousandths ==
    {0, 12500, 25000, 27500, 30000, 30002, 35000, 50000, 65000, 68000, 69998, 70000,
     72000, 72004, 75000, 87500, 100000}

\* Composite scores in ten-thousandths: two less than 0.001 away from a threshold, and
\* two 0.0004 apart.
NearScores == {300004, 600000, 600004, 699996}

\* A configuration giving the sentiment score all the weight.
SentimentOnly(parameters) ==
    [ANALYSIS_WEIGHTS |->
        ("technical_weight" :> Float(0)) @@ ("fundamental_weight" :> Float(0))
        @@ ("sentiment_weight" :> Float(1)) @@ ("economic_indicators_weight" :> Float(0)),
     PARAMETERS |-> parameters]

\* One headline whose polarity makes the composite score k / 1000.
ScoreInput(k, parameters) ==
    Args(LoadedFrame, SentimentOnly(parameters), Stub(EmptyDict), EmptyDict,
         <<Item(Num(k - 50000, 50000))>>)

\* One headline whose polarity makes the composite score k / 10000.
NearScoreInput(k, parameters) ==
    Args(LoadedFrame, SentimentOnly(parameters), Stub(EmptyDict), EmptyDict,
         <<Item(Num(k - 500000, 500000))>>)

NoProviders ==
    [fundamental_data |-> EmptyDict, alpha_vantage_data |-> EmptyDict,
     financial_datasets_data |-> EmptyDict, finnhub_enabled |-> FALSE,
     alpha_vantage_enabled |-> FALSE, financial_datasets_enabled |-> FALSE]

\* Macro indicator values: below, at and above the indicator's threshold.
EconomicValues ==
    [k \in {EconomicIndicators[j] : j \in 1..4} |->
        {Float(1), indicator_mapping[k].threshold, Float(10)}]

EconomicDicts == Dicts(DOMAIN EconomicValues, EconomicValues)

FinancialDatasets ==
    {"economic_indicators" :> e : e \in EconomicDicts}
    \cup {EmptyDict,
          "financials" :> [metrics |-> ("PERatio" :> Float(15))],
          "financials" :> [status |-> Text],
          ("financials" :> [metrics |-> ("PERatio" :> Float(15))])
              @@ ("economic_indicators" :> ("inflation" :> Float(1))),
          ("financials" :> [metrics |-> ("PERatio" :> Float(15))])
              @@ ("economic_indicators" :> ("inflation" :> Text)),
          "economic_indicators" :> ("cpi" :> Float(1))}

YahooInfos ==
    {EmptyDict,
     ("trailingPE" :> Float(20)) @@ ("forwardPE" :> Float(15))
         @@ ("targetMeanPrice" :> Float(110)) @@ ("currentPrice" :> Float(100))
         @@ ("recommendationMean" :> Float(2)) @@ ("priceToBook" :> PyNone),
     ("trailingPE" :> Text) @@ ("forwardPE" :> Float(15))
         @@ ("targetMeanPrice" :> Float(110)) @@ ("currentPrice" :> Float(100)),
     ("targetMeanPrice" :> Float(110)) @@ ("currentPrice" :> Float(0))
         @@ ("recommendationMean" :> Float(2)),
     ("recommendationMean" :> Float(5)) @@ ("pegRatio" :> Float(1))}

Report(revenue, income) == [totalRevenue |-> revenue, netIncome |-> income]

BalanceSheet ==
    [totalShareholderEquity |-> NumStr(Float(100)), shortLongTermDebtTotal |-> NumStr(Float(40)),
     totalCurrentAssets |-> NumStr(Float(60)), totalCurrentLiabilities |-> NumStr(Float(30))]

AlphaVantageData ==
    {EmptyDict,
     ("overview" :> (("PERatio" :> NumStr(Float(12))) @@ ("PEGRatio" :> NumStr(Num(3, 2)))
                     @@ ("ReturnOnEquityTTM" :> NumStr(Float(20))) @@ ("Beta" :> Text)
                     @@ ("EPS" :> NoneText)))
         @@ ("income_statement" :>
                [annualReports |-> <<Report(NumStr(Float(120)), NumStr(Float(30))),
                                     Report(NumStr(Float(100)), NumStr(Float(20)))>>])
         @@ ("balance_sheet" :> [annualReports |-> <<BalanceSheet>>])
         @@ ("cash_flow" :>
                [annualReports |-> <<[operatingCashflow |-> NumStr(Float(50)),
                                      capitalExpenditures |-> NumStr(Float(20))]>>]),
     "overview" :> (("PERatio" :> Text) @@ ("PEGRatio" :> NumStr(Float(1)))),
     ("overview" :> ("PERatio" :> NumStr(Float(12))))
         @@ ("income_statement" :>
                [annualReports |-> <<Report(NumStr(Float(120)), NumStr(Float(30))),
                                     Report(NumStr(Float(0)), NoneText)>>]),
     "balance_sheet" :> [annualReports |-> <<BalanceSheet>>]}

Recommendation(strongBuy, hold, strongSell) ==
    [strongBuy |-> strongBuy, buy |-> Float(0), hold |-> hold, sell |-> Float(0),
     strongSell |-> strongSell]

FinnhubData ==
    {EmptyDict,
     ("finnhub_price_target" :> [targetMean |-> Float(120)])
         @@ ("finnhub_recommendations" :> <<Recommendation(Float(3), Float(1), Float(0))>>)
         @@ ("finnhub_earnings" :> <<[surprisePercent |-> Float(4)], [actual |-> Float(1)],
                                     [surprisePercent |-> Float(-2)]>>),
     ("finnhub_price_target" :> [targetMean |-> PyNone])
         @@ ("finnhub_recommendations" :> <<Recommendation(Float(3), Float(1), Float(0))>>),
     ("finnhub_price_target" :> [targetLow |-> Float(90)])
         @@ ("finnhub_recommendations" :> <<Recommendation(Float(0), Float(0), Float(0))>>)
         @@ ("finnhub_earnings" :> <<[surprisePercent |-> PyNone]>>),
     ("finnhub_recommendations" :> <<>>) @@ ("finnhub_earnings" :> <<>>)}

\* What the companion holds after a fetch: the enabled providers' data.
ProviderSets ==
    {[NoProviders EXCEPT !.financial_datasets_data = fd, !.financial_datasets_enabled = TRUE] :
        fd \in FinancialDatasets}
    \cup {[NoProviders EXCEPT !.financial_datasets_data =
                                  "economic_indicators" :> ("inflation" :> Float(1))]}
    \cup {[NoProviders EXCEPT !.fundamental_data = ("info" :> i) @@ f,
                              !.alpha_vantage_data = a,
                              !.finnhub_enabled = fe,
                              !.alpha_vantage_enabled = ae] :
            i \in YahooInfos, f \in FinnhubData, a \in AlphaVantageData,
            fe \in BOOLEAN, ae \in BOOLEAN}

\* Financial Datasets metrics under names that Yahoo (trailingPE), Alpha Vantage
\* (PERatio, growth_score) and Finnhub (analyst_consensus_score) also supply.
SharedMetrics ==
    {("trailingPE" :> Float(99)) @@ ("PERatio" :> Float(99)),
     ("analyst_consensus_score" :> Float(99)) @@ ("growth_score" :> Float(99))}

\* Data of all four providers held, under every combination of the enabled flags.
SharedKeySets ==
    {[fundamental_data |->
          ("info" :> (("trailingPE" :> Float(20)) @@ ("forwardPE" :> Float(15))))
          @@ ("finnhub_price_target" :> [targetMean |-> Float(120)])
          @@ ("finnhub_recommendations" :> <<Recommendation(Float(3), Float(1), Float(0))>>),
      alpha_vantage_data |->
          ("overview" :> ("PERatio" :> NumStr(Float(12))))
          @@ ("income_statement" :>
                 [annualReports |-> <<Report(NumStr(Float(120)), NumStr(Float(30))),
                                      Report(NumStr(Float(100)), NumStr(Float(20)))>>]),
      financial_datasets_data |-> "financials" :> [metrics |-> m],
      finnhub_enabled |-> fe, alpha_vantage_enabled |-> ae,
      financial_datasets_enabled |-> de] :
        m \in SharedMetrics, fe \in BOOLEAN, ae \in BOOLEAN, de \in BOOLEAN}

ProviderInput(p) ==
    [Args(LoadedFrame, DefaultConfig, Stub(EmptyDict), EmptyDict, <<>>) EXCEPT !.providers = p]

-----------------------------------------------------------------------------
(* The engine applied to an input, and applied again with the configured weights
   multiplied by a positive scalar *)

\* No companion object: the engine is called by itself.
NoLoop ==
    /\ self = None
    /\ heap = <<>>
    /\ main = None
    /\ threads = {}
    /\ runs = <<>>

Init ==
    /\ NoLoop
    /\ pc = "call"
    /\ ret = None
    /\ called = {}
    /\ prev = None
    /\ \/ \E d \in Frames \cup {None} : args = DataInput(d)
       \/ \E i \in IndicatorDicts : args = IndicatorInput(i)
       \/ \E i \in UnreadableInputs : args = i
       \/ \E s \in SignalSets : args = SignalInput(s)
       \/ \E c \in Configs, p \in Profiles : args = ConfigInput(c, p)
       \/ \E f \in FundDicts \cup TextDicts : args = FundInput(f)
       \/ \E n \in NewsLists : args = NewsInput(n)
       \/ \E k \in ScoreThousandths, p \in ParameterSections : args = ScoreInput(k, p)
       \/ \E k \in NearScores, p \in ParameterSections : args = NearScoreInput(k, p)
       \/ \E p \in ProviderSets \cup SharedKeySets : args = ProviderInput(p)
       \/ \E d \in {None, Frame(0, "flat", TRUE)}, c \in {EmptyDict, DefaultConfig} :
             args = Args(d, c, [kind |-> "data"], "PERatio" :> Text, <<NoHeadline>>)

\* main.py lines 84-89, decision_engine.py lines 4-250.
MakeDecision ==
    /\ pc = "call"
    /\ ret' = Decide(args)
    /\ called' = Invoked(args.data)
    /\ pc' = "done"
    /\ UNCHANGED <<args, prev>>
    /\ UNCHANGED loopvars

Scaled(section, k) ==
    [key \in DOMAIN section |->
        IF section[key].t = "num" THEN Mul(section[key], k) ELSE section[key]]

\* The same call with every configured weight multiplied by k.
Rescale(k) ==
    /\ pc = "done"
    /\ prev = None
    /\ k \in args.scales
    /\ "ANALYSIS_WEIGHTS" \in DOMAIN args.config
    /\ prev' = [op |-> "rescale", args |-> args, ret |-> ret, k |-> k]
    /\ args' = [args EXCEPT !.config["ANALYSIS_WEIGHTS"] = Scaled(@, k)]
    /\ ret' = None
    /\ called' = {}
    /\ pc' = "call"
    /\ UNCHANGED loopvars

\* SignalSets of technical score 50 and 100.
OtherSignalSets == {EmptyDict, [k \in key_indicators |-> 1]}

\* The same call with another SignalSet, everything else as it was.
ChangeSignals(signals) ==
    /\ pc = "done"
    /\ prev = None
    /\ args.scales # {}
    /\ args.calc.kind = "signals" /\ args.calc.signals # signals
    /\ prev' = [op |-> "signals", args |-> args, ret |-> ret, k |-> Float(1)]
    /\ args' = [args EXCEPT !.calc.signals = signals]
    /\ ret' = None
    /\ called' = {}
    /\ pc' = "call"
    /\ UNCHANGED loopvars

Next ==
    \/ MakeDecision
    \/ \E k \in Scales : Rescale(k)
    \/ \E signals \in OtherSignalSets : ChangeSignals(signals)

Spec == Init /\ [][Next]_vars

-----------------------------------------------------------------------------
(* The command loop: main.py main_loop, with data_fetcher.py *)

MaxCommands == 3

Tickers == {"AAPL", "MSFT", "ZZZZ"}

Periods == {"1y", "5d"}

Intervals == {"1d", "1wk"}

\* self.ticker before the first fetch (None, which is as false as the empty string).
NoTicker == ""

\* The bars yfinance returns for a period at an interval.
Bars(period, interval) ==
    IF period = "5d" THEN 5 ELSE IF interval = "1wk" THEN 52 ELSE MaxBars

\* What the providers answer about a ticker; ZZZZ is a symbol no provider knows.
Answers ==
    [t \in Tickers |->
        CASE t = "AAPL" ->
                 [market |-> "bull",
                  info |-> ("trailingPE" :> Float(20)) @@ ("forwardPE" :> Float(15))
                           @@ ("targetMeanPrice" :> Float(110))
                           @@ ("currentPrice" :> Float(100)),
                  finnhub |-> ("finnhub_profile" :> [name |-> "AAPL"])
                              @@ ("finnhub_recommendations" :>
                                     <<Recommendation(Float(3), Float(1), Float(0))>>)
                              @@ ("finnhub_price_target" :> [targetMean |-> Float(120)])
                              @@ ("finnhub_earnings" :> <<[surprisePercent |-> Float(4)]>>),
                  alpha_vantage |-> ("balance_sheet" :> [annualReports |-> <<BalanceSheet>>])
                                    @@ ("overview" :> ("PERatio" :> NumStr(Float(12)))),
                  financial_datasets |->
                      ("financials" :> [metrics |-> ("PEGRatio" :> Float(1))])
                      @@ ("economic_indicators" :> ("inflation" :> Float(1))),
                  news |-> <<Item(Num(1, 2))>>]
          [] t = "MSFT" ->
                 [market |-> "bear",
                  info |-> ("recommendationMean" :> Float(5)),
                  finnhub |-> ("finnhub_profile" :> [name |-> "MSFT"])
                              @@ ("finnhub_recommendations" :>
                                     <<Recommendation(Float(0), Float(1), Float(3))>>)
                              @@ ("finnhub_price_target" :> [targetMean |-> Float(80)])
                              @@ ("finnhub_earnings" :> <<[surprisePercent |-> Float(-2)]>>),
                  alpha_vantage |-> ("overview" :> ("PERatio" :> NumStr(Float(60)))),
                  financial_datasets |->
                      ("economic_indicators" :> ("inflation" :> Float(10))),
                  news |-> <<Item(Float(-1)), NoHeadline>>]
          [] OTHER ->
                 [market |-> "none", info |-> EmptyDict,
                  finnhub |-> ("finnhub_profile" :> EmptyDict)
                              @@ ("finnhub_recommendations" :> <<>>)
                              @@ ("finnhub_price_target" :> EmptyDict)
                              @@ ("finnhub_earnings" :> <<>>),
                  alpha_vantage |-> EmptyDict, financial_datasets |-> EmptyDict,
                  news |-> <<>>]]

\* data_fetcher.py line 24: the frame stock.history returns, empty for an unknown symbol.
History(ticker, period, interval) ==
    IF Answers[ticker].market = "none"
    THEN Frame(0, "flat", TRUE)
    ELSE Frame(Bars(period, interval), Answers[ticker].market, TRUE)

\* data_fetcher.py lines 28-31: stock.info, or {} when reading it raises.
Info(ticker) ==
    IF Answers[ticker].market = "none" THEN EmptyDict ELSE Answers[ticker].info

Providers == {"finnhub", "alpha_vantage", "financial_datasets"}

\* data_fetcher.py lines 84-96, 108-144, 162-172: the entries a provider thread stores,
\* in the order of its requests.
Requests ==
    [p \in Providers |->
        CASE p = "finnhub" ->
                 <<"finnhub_profile", "finnhub_recommendations", "finnhub_price_target",
                   "finnhub_earnings">>
          [] p = "alpha_vantage" ->
                 <<"income_statement", "balance_sheet", "cash_flow", "earnings", "overview">>
          [] OTHER -> <<"financials", "economic_indicators">>]

\* The attribute of the companion a provider thread stores into.
Store ==
    [p \in Providers |->
        CASE p = "finnhub" -> "fundamental_data"
          [] p = "alpha_vantage" -> "alpha_vantage_data"
          [] OTHER -> "financial_datasets_data"]

\* apis.py lines 5-50: the providers whose API key is configured, here none or one.
EnabledSets == {{}} \cup {{p} : p \in Providers}

\* main.py lines 39-50.
InitialDecision == [action |-> "HOLD", confidence |-> Float(0), score |-> Float(50)]

\* main.py lines 31-50; decision is the place in heap of the record self.decision
\* refers to.
Companion(enabled) ==
    [config |-> DefaultConfig,
     finnhub_enabled |-> "finnhub" \in enabled,
     alpha_vantage_enabled |-> "alpha_vantage" \in enabled,
     financial_datasets_enabled |-> "financial_datasets" \in enabled,
     ticker |-> NoTicker, period |-> "1y", interval |-> "1d", data |-> None,
     fundamental_data |-> EmptyDict, news_data |-> <<>>,
     alpha_vantage_data |-> EmptyDict, financial_datasets_data |-> EmptyDict,
     analysis_results |-> EmptyDict, decision |-> 1]

Enabled(s) ==
    {p \in Providers : s[p \o "_enabled"]}

\* main.py lines 71-76: the provider data analyze_fundamentals is handed.
Held(s) ==
    [fundamental_data |-> s.fundamental_data, alpha_vantage_data |-> s.alpha_vantage_data,
     financial_datasets_data |-> s.financial_datasets_data,
     finnhub_enabled |-> s.finnhub_enabled, alpha_vantage_enabled |-> s.alpha_vantage_enabled,
     financial_datasets_enabled |-> s.financial_datasets_enabled]

\* Mutant of EngineArgs: once a run has stored its analysis_results, the engine is
\* handed the thresholds of high risk tolerance.
EngineArgsAfterARun(s) ==
    [Args(s.data,
          IF DOMAIN s.analysis_results = {} THEN s.config
          ELSE [s.config EXCEPT !.PARAMETERS = "risk_tolerance" :> "high"],
          [kind |-> "data"], EmptyDict, s.news_data)
        EXCEPT !.providers = Held(s)]

\* main.py lines 62-76, 84-89: the engine is handed the companion's data and
\* configuration and its bound methods, which read the companion's data.
EngineArgs(s) ==
    [Args(s.data, s.config, [kind |-> "data"], EmptyDict, s.news_data)
        EXCEPT !.providers = Held(s)]

\* What a make_decision run depends on: price data, provider data, news, weights and
\* risk tolerance.
Inputs(s) ==
    [data |-> s.data, providers |-> Held(s), news_data |-> s.news_data, config |-> s.config]

\* main.py line 90: decision.pop('analysis_results', {}), the record afterwards.
Popped(decision) ==
    [k \in DOMAIN decision \ {"analysis_results"} |-> decision[k]]

\* Mutant of Replace: the record held is overwritten with the new decision.
ReplaceInPlace(s, h, decision) ==
    [self |-> [s EXCEPT !.analysis_results =
                            IF "analysis_results" \in DOMAIN decision
                            THEN decision.analysis_results ELSE EmptyDict],
     heap |-> [h EXCEPT ![s.decision] = Popped(decision)]]

\* main.py lines 85-91: self.decision refers to the record the engine returned, and
\* analysis_results is popped out of that record.
Replace(s, h, decision) ==
    [self |-> [s EXCEPT !.decision = Len(h) + 1,
                        !.analysis_results =
                            IF "analysis_results" \in DOMAIN decision
                            THEN decision.analysis_results ELSE EmptyDict],
     heap |-> Append(h, Popped(decision))]

\* StockTradingCompanion.make_decision, main.py lines 84-91, on companion s with the
\* records h, the engine having returned or raised decision: an exception leaves both
\* as they were.
Run(s, h, decision) ==
    IF Raised(decision) THEN [self |-> s, heap |-> h] ELSE Replace(s, h, decision)

\* f'{x:.2f}': the number printed with two decimals.
Fixed2(x) == Round2(x)

\* ui.py lines 323-343: the recommendation, confidence, score and component scores
\* generate_report writes out of the decision record it was handed.
ReportHead(ticker, decision) ==
    [ticker |-> ticker,
     action |-> decision.action,
     confidence |-> Fixed2(decision.confidence),
     score |-> Fixed2(decision.score),
     component_scores |->
         IF "component_scores" \in DOMAIN decision
         THEN [name \in DOMAIN decision.component_scores \ {"weights"} |->
                  Fixed2(decision.component_scores[name])]
         ELSE None]

\* The record of a run: the ticker named, the run's inputs, what the engine returned,
\* the providers whose threads were alive during it, and what a report wrote after it.
RunRecord(s, decision, written) ==
    [ticker |-> s.ticker, inputs |-> Inputs(s), decision |-> decision,
     writing |-> {t.provider : t \in threads}, written |-> written]

\* data_fetcher.py lines 177-192: no client or no ticker gives [], an exception gives
\* [], and otherwise the provider's news.
FetchedNews(s) ==
    IF ~s.finnhub_enabled \/ s.ticker = NoTicker
    THEN {<<>>}
    ELSE {<<>>, Answers[s.ticker].news}

NoCall ==
    /\ pc = "none"
    /\ args = None
    /\ ret = None
    /\ called = {}
    /\ prev = None

LoopInit ==
    /\ NoCall
    /\ \E enabled \in EnabledSets : self = Companion(enabled)
    /\ heap = <<InitialDecision>>
    /\ main = [at |-> "start", n |-> 0, guarded |-> FALSE]
    /\ threads = {}
    /\ runs = <<>>

\* data_fetcher.py lines 11-58 and 73-75, called as command n: either stock.history
\* raises, or the frame and the info are stored, the Alpha Vantage and Financial Datasets
\* data are reset and one thread per enabled provider is started.
FetchStockData(ticker, period, interval, n, guarded) ==
    LET named == [self EXCEPT !.ticker = ticker, !.period = period, !.interval = interval]
    IN  \/ /\ self' = named
           /\ threads' = threads
           /\ main' = [at |-> "prompt", n |-> n, guarded |-> TRUE]
        \/ /\ self' = [named EXCEPT !.data = History(ticker, period, interval),
                                    !.fundamental_data = ("info" :> Info(ticker)) @@ @,
                                    !.alpha_vantage_data = EmptyDict,
                                    !.financial_datasets_data = EmptyDict]
           /\ threads' = threads \cup
                  {[provider |-> p, ticker |-> ticker, at |-> 1, fetch |-> n] :
                      p \in Enabled(self)}
           /\ main' = [at |-> "join", n |-> n, guarded |-> guarded]

\* main.py lines 148-150: the default stock is loaded before the loop's try.
Startup ==
    /\ main.at = "start"
    /\ FetchStockData("AAPL", "1y", "1d", 0, FALSE)
    /\ UNCHANGED <<heap, runs>>
    /\ UNCHANGED enginevars

\* main.py line 155: a command is read.
Prompted ==
    /\ main.at = "prompt"
    /\ main.n < MaxCommands

\* main.py lines 170-175.
Symbol(ticker) ==
    /\ Prompted
    /\ FetchStockData(ticker, "1y", "1d", main.n + 1, TRUE)
    /\ UNCHANGED <<heap, runs>>
    /\ UNCHANGED enginevars

\* main.py line 180.
valid_periods == {"1d", "5d", "1mo", "3mo", "6mo", "1y", "2y", "5y", "10y", "ytd", "max"}

\* main.py line 193.
valid_intervals ==
    {"1m", "2m", "5m", "15m", "30m", "60m", "90m", "1h", "1d", "5d", "1wk", "1mo", "3mo"}

\* main.py line 206.
valid_risks == {"low", "medium", "high"}

RiskLevels == {"low", "medium", "high"}

\* What the user may type after period, interval and risk.
PeriodArguments == Periods \cup {"1w"}

IntervalArguments == Intervals \cup {"1y"}

RiskArguments == RiskLevels \cup {"extreme"}

\* An argument the command rejects: a message is printed and the next command read.
Rejected ==
    /\ main' = [main EXCEPT !.n = @ + 1]
    /\ UNCHANGED <<self, heap, threads, runs>>

\* main.py lines 177-188.
Period(period) ==
    /\ Prompted
    /\ IF period \in valid_periods
       THEN /\ FetchStockData(self.ticker, period, self.interval, main.n + 1, TRUE)
            /\ UNCHANGED <<heap, runs>>
       ELSE Rejected
    /\ UNCHANGED enginevars

\* main.py lines 190-201.
Interval(interval) ==
    /\ Prompted
    /\ IF interval \in valid_intervals
       THEN /\ FetchStockData(self.ticker, self.period, interval, main.n + 1, TRUE)
            /\ UNCHANGED <<heap, runs>>
       ELSE Rejected
    /\ UNCHANGED enginevars

\* data_fetcher.py lines 61-71: every thread this fetch started has ended.
Join ==
    /\ main.at = "join"
    /\ ~\E t \in threads : t.fetch = main.n
    /\ main' = [main EXCEPT !.at = "prompt", !.guarded = TRUE]
    /\ UNCHANGED <<self, heap, threads, runs>>
    /\ UNCHANGED enginevars

\* Ctrl-C while fetch_stock_data waits in join: KeyboardInterrupt is no Exception, so
\* it passes data_fetcher.py line 73; main.py lines 261-262 catch it and the loop goes
\* on, while outside the loop (line 150) it ends the program.
Interrupt ==
    /\ main.at = "join"
    /\ \E t \in threads : t.fetch = main.n
    /\ main' = [main EXCEPT !.at = IF main.guarded THEN "prompt" ELSE "exit"]
    /\ UNCHANGED <<self, heap, threads, runs>>
    /\ UNCHANGED enginevars

\* One request of a provider thread: the entry is stored in the companion's attribute
\* when the answer holds it (Finnhub's answers, stored as they come, hold every entry),
\* and the thread ends after its last request.
Request(t) ==
    /\ t \in threads
    /\ LET key == Requests[t.provider][t.at]
           answer == Answers[t.ticker][t.provider]
       IN  self' = IF key \in DOMAIN answer
                   THEN [self EXCEPT ![Store[t.provider]] = (key :> answer[key]) @@ @]
                   ELSE self
    /\ threads' = (threads \ {t}) \cup
           (IF t.at < Len(Requests[t.provider]) THEN {[t EXCEPT !.at = @ + 1]} ELSE {})
    /\ UNCHANGED <<heap, main, runs>>
    /\ UNCHANGED enginevars

\* data_fetcher.py lines 98-99, 146-147, 174-175: a request raises and the thread ends.
RequestFails(t) ==
    /\ t \in threads
    /\ threads' = threads \ {t}
    /\ UNCHANGED <<self, heap, main, runs>>
    /\ UNCHANGED enginevars

\* main.py lines 203-213.
Risk(risk) ==
    /\ Prompted
    /\ IF risk \in valid_risks
       THEN /\ self' = [self EXCEPT !.config.PARAMETERS = ("risk_tolerance" :> risk) @@ @]
            /\ main' = [main EXCEPT !.n = @ + 1]
            /\ UNCHANGED <<heap, threads, runs>>
       ELSE Rejected
    /\ UNCHANGED enginevars

\* main.py lines 215-221: fresh news, then make_decision, then display_summary, which
\* only reads.
Analyze ==
    /\ Prompted
    /\ IF NoData(self.data)
       THEN UNCHANGED <<self, heap, runs>>
       ELSE \E news_data \in FetchedNews(self) :
               \E s \in {[self EXCEPT !.news_data = news_data]} :
                   \E decision \in {Decide(EngineArgs(s))} :
                       \E after \in {Run(s, heap, decision)} :
                           /\ self' = after.self
                           /\ heap' = after.heap
                           /\ runs' = Append(runs, RunRecord(s, decision, None))
    /\ main' = [main EXCEPT !.n = @ + 1]
    /\ UNCHANGED threads
    /\ UNCHANGED enginevars

\* main.py lines 112-118 and 248-249, ui.py lines 296-343: generate_report is handed
\* the record self.decision refers to when it is called, runs make_decision without
\* fresh news, and writes out of the record it was handed; nothing is written when
\* make_decision raises.
GenerateReport ==
    /\ Prompted
    /\ IF self.ticker = NoTicker \/ NoData(self.data)
       THEN UNCHANGED <<self, heap, runs>>
       ELSE \E decision \in {Decide(EngineArgs(self))} :
               \E after \in {Run(self, heap, decision)} :
                   /\ self' = after.self
                   /\ heap' = after.heap
                   /\ runs' = Append(runs,
                                 RunRecord(self, decision,
                                           IF Raised(decision) THEN None
                                           ELSE ReportHead(self.ticker, heap[self.decision])))
    /\ main' = [main EXCEPT !.n = @ + 1]
    /\ UNCHANGED threads
    /\ UNCHANGED enginevars

\* main.py lines 229-243.
News ==
    /\ Prompted
    /\ \E news_data \in FetchedNews(self) : self' = [self EXCEPT !.news_data = news_data]
    /\ main' = [main EXCEPT !.n = @ + 1]
    /\ UNCHANGED <<heap, threads, runs>>
    /\ UNCHANGED enginevars

\* main.py lines 223-227, 245-246, 251-252: charts, info and metrics only read.
Show ==
    /\ Prompted
    /\ main' = [main EXCEPT !.n = @ + 1]
    /\ UNCHANGED <<self, heap, threads, runs>>
    /\ UNCHANGED enginevars

\* main.py lines 164-165.
Exit ==
    /\ Prompted
    /\ main' = [main EXCEPT !.at = "exit"]
    /\ UNCHANGED <<self, heap, threads, runs>>
    /\ UNCHANGED enginevars

LoopNext ==
    \/ Startup
    \/ \E ticker \in Tickers : Symbol(ticker)
    \/ \E period \in PeriodArguments : Period(period)
    \/ \E interval \in IntervalArguments : Interval(interval)
    \/ \E risk \in RiskArguments : Risk(risk)
    \/ Analyze
    \/ GenerateReport
    \/ News
    \/ Show
    \/ Exit
    \/ Join
    \/ Interrupt
    \/ \E t \in threads : Request(t)
    \/ \E t \in threads : RequestFails(t)

LoopSpec == LoopInit /\ [][LoopNext]_vars

-----------------------------------------------------------------------------
(* Properties *)

Returned == pc = "done" /\ ~Raised(ret) /\ "component_scores" \in DOMAIN ret

WeightSection == args.config["ANALYSIS_WEIGHTS"]

AllConfigured ==
    /\ "ANALYSIS_WEIGHTS" \in DOMAIN args.config
    /\ \A k \in Families : WeightKey[k] \in DOMAIN WeightSection

\* 0.5*technical + 0.3*fundamental + 0.1*sentiment + 0.1*economic, as the decision
\* reports it.
FallbackScore(cs) ==
    Round2(Sum(<<Mul(cs.technical, Num(1, 2)), Mul(cs.fundamental, Num(3, 10)),
                 Mul(cs.sentiment, Num(1, 10)), Mul(cs.economic, Num(1, 10))>>))

\* C1: when all four configured weights are 0, the returned score is the weighted sum of
\* the component scores under the fallback weights 0.5, 0.3, 0.1, 0.1.
C1_ZeroWeightsFallBack ==
    (Returned /\ AllConfigured /\ \A k \in Families : WeightSection[WeightKey[k]] = Float(0))
    => ret.score = FallbackScore(ret.component_scores)

\* The technical score of section 4.2: the denominator counts half a point for each key
\* indicator present in the SignalSet.
SpecTechScore(signals) ==
    LET present == key_indicators \cap DOMAIN signals
        bullish == Cardinality({k \in DOMAIN signals : signals[k] > 0})
        bearish == Cardinality({k \in DOMAIN signals : signals[k] < 0})
        key_bullish == Cardinality({k \in present : signals[k] > 0})
        key_bearish == Cardinality({k \in present : signals[k] < 0})
        weighted == Sub(Add(Float(bullish), Num(key_bullish, 2)),
                        Add(Float(bearish), Num(key_bearish, 2)))
        denominator == Add(Float(Cardinality(DOMAIN signals)), Num(Cardinality(present), 2))
    IN  Min(Max(Add(Mul(Div(weighted, denominator), Float(50)), Float(50)), Float(0)), Float(100))

\* C2: for every non-empty SignalSet the technical score is
\* clamp((weighted_bullish - weighted_bearish) / (signal_count + 0.5 * k) * 50 + 50, 0, 100)
\* with k the number of key indicators present in the SignalSet.
C2_TechScoreCountsPresentKeys ==
    (Returned /\ args.calc.kind = "signals" /\ DOMAIN args.calc.signals # {})
    => ret.component_scores.technical = Round2(SpecTechScore(args.calc.signals))

\* C3: a non-empty SignalSet whose signals are all +1 scores 100, and indicators holding
\* only an RSI series whose latest value is 25 give the SignalSet {rsi: +1} and the
\* technical score 100.
C3_AllBullishScores100 ==
    /\ (Returned /\ args.calc.kind = "signals" /\ DOMAIN args.calc.signals # {}
        /\ \A k \in DOMAIN args.calc.signals : args.calc.signals[k] = 1)
       => ret.component_scores.technical = Float(100)
    /\ (Returned /\ args.calc.kind = "indicators"
        /\ args.calc.indicators = ("rsi" :> Float(25)))
       => /\ ret.analysis_results.technical = ("rsi" :> 1)
          /\ ret.component_scores.technical = Float(100)

\* C4: a price history shorter than the longest lookback window (the 200 bars of
\* sma_200) yields an empty SignalSet.
C4_ShortHistoryGivesNoSignals ==
    (Returned /\ args.calc.kind = "data" /\ args.data.bars < MinBars["sma_200"])
    => ret.analysis_results.technical = EmptyDict

\* The series whose latest value each signal is computed from.
Reads ==
    [sig \in {"ma_cross", "price_vs_sma50", "price_vs_sma200", "macd", "macd_hist", "rsi",
              "bollinger", "stoch", "stoch_cross", "trend_strength", "aroon", "cci", "mfi",
              "trix"} |->
        CASE sig = "ma_cross" -> {"sma_20", "sma_50"}
          [] sig = "price_vs_sma50" -> {"sma_50"}
          [] sig = "price_vs_sma200" -> {"sma_200"}
          [] sig = "macd" -> {"macd", "macd_signal"}
          [] sig = "bollinger" -> {"bb_upper", "bb_lower"}
          [] sig \in {"stoch", "stoch_cross"} -> {"slowk", "slowd"}
          [] sig = "trend_strength" -> {"adx"}
          [] sig = "aroon" -> {"aroon_up", "aroon_down"}
          [] OTHER -> {sig}]

\* C5: the SignalSet has an entry for a rule only if the latest value of every series
\* the rule reads is defined (not NaN).
C5_NoSignalFromUndefinedValue ==
    (Returned /\ args.calc.kind \in {"indicators", "data"})
    => \A sig \in DOMAIN ret.analysis_results.technical :
          \A s \in Reads[sig] : s \in DOMAIN ret.analysis_results.indicators
                                /\ ret.analysis_results.indicators[s].t = "num"

\* C6: when a configured weight is negative the fallback weights are applied and a
\* decision is still returned.
C6_NegativeWeightFallsBack ==
    (/\ pc = "done"
     /\ args.data # None /\ args.data.bars > 0
     /\ "PARAMETERS" \in DOMAIN args.config
     /\ "ANALYSIS_WEIGHTS" \in DOMAIN args.config
     /\ \E key \in DOMAIN WeightSection : Lt(WeightSection[key], Float(0)))
    => /\ Returned
       /\ ret.score = FallbackScore(ret.component_scores)

\* C7: make_decision never raises: whatever the price data, the configuration, the
\* fundamentals and the news, it returns a record with an action among BUY, SELL, HOLD
\* and NO DATA, a confidence and a score.
C7_AlwaysReturnsDecision ==
    pc = "done"
    => /\ ~Raised(ret)
       /\ {"action", "confidence", "score"} \subseteq DOMAIN ret
       /\ ret.action \in {"BUY", "SELL", "HOLD", "NO DATA"}

InRange(x) == Ge(x, Float(0)) /\ Le(x, Float(100))

\* The configured weights (a missing key taking its default) are numbers, none is
\* negative and their sum is positive.
ValidWeights(config) ==
    /\ "ANALYSIS_WEIGHTS" \in DOMAIN config
    /\ LET raw == [k \in Families |->
                      Get(config["ANALYSIS_WEIGHTS"], WeightKey[k], FallbackWeights[k])]
       IN  /\ \A k \in Families : Ge(raw[k], Float(0))
           /\ \E k \in Families : Gt(raw[k], Float(0))

\* The fundamental and economic values are numbers, the 0-100 scores within [0, 100] and
\* the analyst signal within [-1, 1].
InDomain(fa) ==
    /\ \A k \in DOMAIN fa : fa[k].t = "num"
    /\ \A k \in DOMAIN fa \cap {"analyst_consensus_score", "financial_health_score",
                                 "growth_score", "earnings_surprise_score",
                                 "economic_environment_score"} : InRange(fa[k])
    /\ "analyst_signal" \in DOMAIN fa
       => Ge(fa["analyst_signal"], Float(-1)) /\ Le(fa["analyst_signal"], Float(1))

\* C8: with non-empty price data, non-negative weights of positive sum, any risk
\* tolerance and fundamental, sentiment and economic values in their domains, the
\* score, the confidence and the four component scores of the decision all lie in
\* [0, 100].
C8_ScoresWithinRange ==
    (/\ pc = "done"
     /\ args.data # None /\ args.data.bars > 0
     /\ "PARAMETERS" \in DOMAIN args.config
     /\ ValidWeights(args.config)
     /\ InDomain(FundOf(args)))
    => /\ Returned
       /\ InRange(ret.score) /\ InRange(ret.confidence)
       /\ \A k \in Families : InRange(ret.component_scores[k])

\* C8 witness: unequal valid weights under low risk tolerance, with a decision at the
\* top of the range.
C8_Witness ==
    /\ Returned
    /\ ValidWeights(args.config)
    /\ AllConfigured
    /\ WeightSection["technical_weight"] = Float(2)
    /\ WeightSection["fundamental_weight"] = Float(1)
    /\ "risk_tolerance" \notin DOMAIN args.config["PARAMETERS"]
    /\ ret.action = "BUY" /\ ret.score = Float(100) /\ ret.confidence = Float(100)

\* C9: price_vs_sma50 is emitted whenever sma_50 is present and price_vs_sma200 whenever
\* sma_200 is present, each +1 if the close exceeds the average's latest value and -1
\* otherwise, whatever other series are present.
C9_PriceVsAverageIndependent ==
    (Returned /\ args.calc.kind = "indicators")
    => LET ind == args.calc.indicators
           signals == ret.analysis_results.technical
       IN  /\ "sma_50" \in DOMAIN ind
              => /\ "price_vs_sma50" \in DOMAIN signals
                 /\ signals["price_vs_sma50"] =
                       IF Gt(args.data.close, ind["sma_50"]) THEN 1 ELSE -1
           /\ "sma_200" \in DOMAIN ind
              => /\ "price_vs_sma200" \in DOMAIN signals
                 /\ signals["price_vs_sma200"] =
                       IF Gt(args.data.close, ind["sma_200"]) THEN 1 ELSE -1

\* The earlier call returned a decision, its four weights all configured, numeric and of
\* positive sum.
RescaledPositiveSum ==
    /\ pc = "done" /\ prev # None /\ prev.op = "rescale" /\ ~Raised(prev.ret)
    /\ \A k \in Families : WeightKey[k] \in DOMAIN prev.args.config["ANALYSIS_WEIGHTS"]
    /\ \A k \in Families : prev.args.config["ANALYSIS_WEIGHTS"][WeightKey[k]].t = "num"
    /\ Gt(Sum(<<prev.args.config["ANALYSIS_WEIGHTS"]["technical_weight"],
                prev.args.config["ANALYSIS_WEIGHTS"]["fundamental_weight"],
                prev.args.config["ANALYSIS_WEIGHTS"]["sentiment_weight"],
                prev.args.config["ANALYSIS_WEIGHTS"]["economic_indicators_weight"]>>),
          Float(0))

GroupKeys ==
    <<{"price_target_diff", "finnhub_target_diff"},
      {"analyst_signal", "analyst_consensus_score"},
      {"financial_health_score", "DebtToEquity", "CurrentRatio"},
      {"growth_score", "RevenueGrowthYoY", "earnings_surprise_score"},
      {"PERatio", "trailingPE", "PEGRatio"}>>

\* The scores of the present metrics of each group.
GroupScores(fa) ==
    <<target_signals(fa), analyst_signals(fa), health_signals(fa), growth_signals(fa),
      valuation_signals(fa)>>

PresentGroups(fa) == {i \in 1..5 : GroupKeys[i] \cap DOMAIN fa # {}}

RECURSIVE Total(_, _)
Total(S, f) ==
    IF S = {} THEN Float(0)
    ELSE LET i == CHOOSE x \in S : TRUE IN Add(f[i], Total(S \ {i}, f))

SpecThresholds(risk_tolerance) ==
    CASE risk_tolerance = "low" -> [buy |-> 75, sell |-> 25]
      [] risk_tolerance = "high" -> [buy |-> 65, sell |-> 35]
      [] OTHER -> [buy |-> 70, sell |-> 30]

RiskOf(config) == Get(config["PARAMETERS"], "risk_tolerance", "medium")

\* The composite score of the call, before it is rounded for the decision.
Composite(a) ==
    WeightedSum(ConfiguredWeights(a.config), TechScore(SignalsOf(a)), FundScore(FundOf(a)),
                Mul(analyze_sentiment(a.news), Float(100)),
                Get(FundOf(a), "economic_environment_score", Float(50)))

\* C12: the action of a returned decision agrees with the decision's own score field:
\* BUY iff score >= buy_threshold, SELL iff score <= sell_threshold, HOLD iff the score
\* is strictly between the two.
C12_ActionAgreesWithScoreField ==
    Returned
    => LET th == SpecThresholds(RiskOf(args.config))
       IN  /\ ret.action = "BUY" <=> Ge(ret.score, Float(th.buy))
           /\ ret.action = "SELL" <=> Le(ret.score, Float(th.sell))
           /\ ret.action = "HOLD" <=> (Gt(ret.score, Float(th.sell)) /\ Lt(ret.score, Float(th.buy)))

\* C13: risk tolerance 'low' selects the thresholds (75, 25), 'high' (65, 35), 'medium'
\* and any other value (70, 30), the action of the decision being taken against them;
\* the buy threshold does not rise and the sell threshold does not fall from low to
\* medium to high, and always 0 < sell_threshold < buy_threshold < 100.
C13_ThresholdsByRiskTolerance ==
    Returned
    => LET risk == RiskOf(args.config)
           th == SpecThresholds(risk)
           final_score == Composite(args)
       IN  /\ Thresholds(risk) = th
           /\ ret.action = IF Ge(final_score, Float(th.buy)) THEN "BUY"
                           ELSE IF Le(final_score, Float(th.sell)) THEN "SELL" ELSE "HOLD"
           /\ 0 < Thresholds(risk).sell /\ Thresholds(risk).sell < Thresholds(risk).buy
           /\ Thresholds(risk).buy < 100
           /\ Thresholds("low").buy >= Thresholds("medium").buy
           /\ Thresholds("medium").buy >= Thresholds("high").buy
           /\ Thresholds("low").sell <= Thresholds("medium").sell
           /\ Thresholds("medium").sell <= Thresholds("high").sell

\* C13 witness: an unrecognized risk tolerance and a score of 72, which is a BUY against
\* the medium threshold 70 and would be a HOLD against the low threshold 75.
C13_Witness ==
    /\ Returned
    /\ RiskOf(args.config) = "extreme"
    /\ ret.score = Float(72)
    /\ ret.action = "BUY"

\* The four configured weights (a missing key taking its default) are numbers and none
\* is negative.
NonNegativeWeights(config) ==
    /\ "ANALYSIS_WEIGHTS" \in DOMAIN config
    /\ \A k \in Families :
          Ge(Get(config["ANALYSIS_WEIGHTS"], WeightKey[k], FallbackWeights[k]), Float(0))

\* The call was made again with another SignalSet and both calls returned a decision.
SignalsChanged ==
    /\ Returned /\ prev # None /\ prev.op = "signals"
    /\ ~Raised(prev.ret) /\ "component_scores" \in DOMAIN prev.ret

\* C14: with non-negative weights, a higher technical score, the three other scores,
\* the weights and the risk tolerance being the same, never gives a lower composite
\* score.
C14_MonotoneInTechnicalScore ==
    (/\ SignalsChanged
     /\ NonNegativeWeights(args.config)
     /\ Gt(ret.component_scores.technical, prev.ret.component_scores.technical))
    => Ge(ret.score, prev.ret.score)

\* C14 witness: the technical score raised under a positive technical weight, the
\* composite score rising with it.
C14_Witness ==
    /\ SignalsChanged
    /\ NonNegativeWeights(args.config)
    /\ Gt(Get(WeightSection, "technical_weight", Float(0)), Float(0))
    /\ Gt(ret.component_scores.technical, prev.ret.component_scores.technical)
    /\ Gt(ret.score, prev.ret.score)

\* C15: with price data None or empty make_decision returns exactly
\* {action: NO DATA, confidence: 0, score: 50}, invokes none of the four callables and
\* does not read the configuration.
C15_NoDataBypassesEverything ==
    (pc = "done" /\ (args.data = None \/ args.data.bars = 0))
    => /\ ret = [action |-> "NO DATA", confidence |-> Float(0), score |-> Float(50)]
       /\ called = {}

\* C15 witness: an empty frame, with a configuration and fundamentals that would raise
\* if they were read.
C15_Witness ==
    /\ pc = "done"
    /\ args.data # None /\ args.data.bars = 0
    /\ args.config = EmptyDict
    /\ args.fund_analysis # EmptyDict
    /\ ret.action = "NO DATA"

\* The macro indicators the Financial Datasets response of the call holds.
SuppliedIndicators ==
    IF args.providers.financial_datasets_enabled
       /\ "economic_indicators" \in DOMAIN args.providers.financial_datasets_data
    THEN args.providers.financial_datasets_data["economic_indicators"]
    ELSE EmptyDict

\* +1 for a positive-polarity indicator above its threshold or a negative-polarity one
\* at or below it, -1 otherwise.
Contribution(name, value) ==
    IF \/ indicator_mapping[name].impact > 0 /\ Gt(value, indicator_mapping[name].threshold)
       \/ indicator_mapping[name].impact < 0 /\ Le(value, indicator_mapping[name].threshold)
    THEN 1 ELSE -1

\* C19: the economic score is 50 when none of fed_rate, gdp_growth, inflation and
\* unemployment is present in the supplied data, and tally / count * 50 + 50 otherwise,
\* each present indicator adding its contribution of +1 or -1 to the tally.
C19_EconomicScoreIsTallyOfIndicators ==
    (/\ Returned /\ args.providers # None
     /\ \A k \in DOMAIN SuppliedIndicators : Numeric(SuppliedIndicators[k]))
    => LET present == DOMAIN SuppliedIndicators \cap DOMAIN indicator_mapping
           count == Cardinality(present)
           tally == Total(present, [k \in present |->
                                      Float(Contribution(k, SuppliedIndicators[k]))])
       IN  ret.component_scores.economic =
              IF count = 0 THEN Float(50)
              ELSE Round2(Add(Mul(Div(tally, Float(count)), Float(50)), Float(50)))

\* C19 witness: a low fed rate, inflation at its threshold and unemployment above its
\* threshold: tally 1 of count 3, economic score 66.67.
C19_Witness ==
    /\ Returned /\ args.providers # None
    /\ DOMAIN SuppliedIndicators = {"fed_rate", "inflation", "unemployment"}
    /\ SuppliedIndicators["inflation"] = Float(3)
    /\ SuppliedIndicators["unemployment"] = Float(10)
    /\ ret.component_scores.economic = Num(6667, 100)

\* C20: when the composite score is at or above the buy threshold the action is BUY and
\* the confidence is (score - buy_threshold) / (100 - buy_threshold) * 100 rounded to 2
\* decimals: 0 at the threshold, 100 at score 100, 6.67 at score 72 under 'medium'.
C20_BuyConfidence ==
    LET th == SpecThresholds(RiskOf(args.config))
        final_score == Composite(args)
    IN  (Returned /\ Ge(final_score, Float(th.buy)))
        => /\ ret.action = "BUY"
           /\ ret.confidence =
                 Round2(Mul(Div(Sub(final_score, Float(th.buy)), Float(100 - th.buy)),
                            Float(100)))
           /\ final_score = Float(th.buy) => ret.confidence = Float(0)
           /\ final_score = Float(100) => ret.confidence = Float(100)
           /\ (final_score = Float(72) /\ RiskOf(args.config) = "medium")
              => ret.confidence = Num(667, 100)

\* C20 witness: composite score 72 under 'medium': BUY with confidence 6.67.
C20_Witness ==
    /\ Returned
    /\ RiskOf(args.config) = "medium"
    /\ Composite(args) = Float(72)
    /\ ret.action = "BUY"
    /\ ret.confidence = Num(667, 100)

\* C16: in the command loop no make_decision run (analyze or report) takes place while
\* a provider thread started by fetch_stock_data is still alive, that is, still storing
\* into fundamental_data, alpha_vantage_data or financial_datasets_data.
C16_NoRunWhileProviderThreadAlive ==
    \A i \in DOMAIN runs : runs[i].writing = {}

\* The decision record a run produced.
Produced(run) == Popped(run.decision)

\* C17: every step leaves each existing decision record as it was; a make_decision
\* run that returns makes self.decision refer to a record that did not exist before,
\* holding what the engine returned; and no other step changes what self.decision
\* refers to.
C17_FreshDecisionReplacesPrevious ==
    [][/\ \A i \in DOMAIN heap : i \in DOMAIN heap' /\ heap'[i] = heap[i]
       /\ IF Len(runs') > Len(runs) /\ ~Raised(runs'[Len(runs')].decision)
          THEN /\ self'.decision \notin DOMAIN heap
               /\ self'.decision \in DOMAIN heap'
               /\ heap'[self'.decision] = Produced(runs'[Len(runs')])
          ELSE self'.decision = self.decision]_vars

\* Two runs have returned: the second record replaced the first, which differs from
\* it and is still what the first run produced.
C17_Witness ==
    /\ Len(runs) = 2
    /\ Len(heap) = 3
    /\ self.decision = 3
    /\ heap[1] = InitialDecision
    /\ heap[2] = Produced(runs[1])
    /\ heap[3] = Produced(runs[2])
    /\ heap[3] # heap[2]

SpecHoldConfidence(score, th) ==
    Mul(Sub(Float(1), Div(RAbs(Sub(score, Num(th.buy + th.sell, 2))),
                          Num(th.buy - th.sell, 2))),
        Float(100))

\* The scores the inputs produce.
ScoreGrid ==
    {Num(k, 1000) : k \in ScoreThousandths} \cup {Num(k, 10000) : k \in NearScores}

\* The scores of the grid that are a HOLD against th and farther from the midpoint
\* than score.
FartherHolds(score, th) ==
    {g \in ScoreGrid :
        /\ Gt(g, Float(th.sell)) /\ Lt(g, Float(th.buy))
        /\ Gt(RAbs(Sub(g, Num(th.buy + th.sell, 2))),
              RAbs(Sub(score, Num(th.buy + th.sell, 2))))}

ScoreUnder(weights, a) ==
    Round2(Sum(<<Mul(TechScore(SignalsOf(a)), weights.technical),
                 Mul(FundScore(FundOf(a)), weights.fundamental),
                 Mul(Mul(analyze_sentiment(a.news), Float(100)), weights.sentiment),
                 Mul(Get(FundOf(a), "economic_environment_score", Float(50)),
                     weights.economic)>>))

\* The weights section is missing, or one of its weights is not a number.
InvalidWeights(config) ==
    \/ "ANALYSIS_WEIGHTS" \notin DOMAIN config
    \/ \E k \in Families :
          /\ WeightKey[k] \in DOMAIN config["ANALYSIS_WEIGHTS"]
          /\ config["ANALYSIS_WEIGHTS"][WeightKey[k]].t = "str"

\* The weights of a section in which some keys are missing: 0.5, 0.3, 0.1, 0.1 for the
\* missing ones, then normalized.
WithDefaults(section) ==
    NormalizeWeights(
        [k \in Families |->
            IF WeightKey[k] \in DOMAIN section THEN section[WeightKey[k]]
            ELSE CASE k = "technical" -> Num(1, 2)
                   [] k = "fundamental" -> Num(3, 10)
                   [] OTHER -> Num(1, 10)])

Contributions(a) ==
    [yahoo |-> YahooResults(a.providers.fundamental_data),
     alpha_vantage |->
         IF a.providers.alpha_vantage_enabled
         THEN AlphaVantageResults(a.providers.alpha_vantage_data) ELSE EmptyDict,
     finnhub |->
         IF a.providers.finnhub_enabled
         THEN FinnhubResults(a.providers.fundamental_data, a.data) ELSE EmptyDict,
     financial_datasets |->
         IF a.providers.financial_datasets_enabled
         THEN analyze_financial_datasets_data(a.providers.financial_datasets_data)
         ELSE EmptyDict]

MergeOrder == <<"yahoo", "alpha_vantage", "finnhub", "financial_datasets">>

\* The keys of the contributions c, each with the value of the provider latest in
\* MergeOrder that supplies it.
LatestWins(c) ==
    [k \in UNION {DOMAIN c[MergeOrder[i]] : i \in 1..4} |->
        LET last == CHOOSE i \in 1..4 :
                        /\ k \in DOMAIN c[MergeOrder[i]]
                        /\ \A j \in (i + 1)..4 : k \notin DOMAIN c[MergeOrder[j]]
        IN  c[MergeOrder[last]][k]]

\* C23: the fundamental analysis of a call on held provider data has exactly the keys
\* the Yahoo data and the enabled providers supply, each with the value of the provider
\* latest in the order Yahoo, Alpha Vantage, Finnhub, Financial Datasets; a provider
\* whose flag is false supplies none.
C23_LaterProviderOverrides ==
    (pc = "done" /\ args.providers # None)
    => /\ DOMAIN FundOf(args) = DOMAIN LatestWins(Contributions(args))
       /\ \A k \in DOMAIN FundOf(args) : FundOf(args)[k] = LatestWins(Contributions(args))[k]
       /\ Returned
          => \A k \in DOMAIN LatestWins(Contributions(args)) :
                /\ k \in DOMAIN ret.analysis_results.fundamental
                /\ ret.analysis_results.fundamental[k] = LatestWins(Contributions(args))[k]

\* C23 witness: Alpha Vantage supplies PERatio 12 and Financial Datasets PERatio 99 and
\* trailingPE 99 beside Yahoo's trailingPE 20; Finnhub data is held with its flag false.
C23_Witness ==
    /\ Returned
    /\ args.providers # None
    /\ args.providers.alpha_vantage_enabled
    /\ args.providers.financial_datasets_enabled
    /\ ~args.providers.finnhub_enabled
    /\ "finnhub_price_target" \in DOMAIN args.providers.fundamental_data
    /\ "PERatio" \in DOMAIN Contributions(args).alpha_vantage
    /\ Contributions(args).alpha_vantage["PERatio"] = Float(12)
    /\ "trailingPE" \in DOMAIN Contributions(args).yahoo
    /\ Contributions(args).yahoo["trailingPE"] = Float(20)
    /\ {"PERatio", "trailingPE"} \subseteq DOMAIN ret.analysis_results.fundamental
    /\ ret.analysis_results.fundamental["PERatio"] = Float(99)
    /\ ret.analysis_results.fundamental["trailingPE"] = Float(99)
    /\ "finnhub_target_diff" \notin DOMAIN ret.analysis_results.fundamental

\* C24: a decision whose SignalSet is empty has technical score exactly 50, and the
\* SignalSet is empty when there are no indicators and when calculate_signals fails on
\* a frame it cannot read.
C24_EmptySignalSetScores50 ==
    Returned
    => /\ DOMAIN ret.analysis_results.technical = {}
          => ret.component_scores.technical = Float(50)
       /\ (args.calc.kind # "signals"
           /\ (DOMAIN ret.analysis_results.indicators = {} \/ ~args.data.columns))
          => /\ DOMAIN ret.analysis_results.technical = {}
             /\ ret.component_scores.technical = Float(50)

\* C24 witness: an RSI of 25, which alone would score 100, beside a frame without a
\* Close column: calculate_signals fails, the SignalSet is empty and the score 50.
C24_Witness ==
    /\ Returned
    /\ args.calc.kind = "indicators"
    /\ args.calc.indicators = ("rsi" :> Float(25))
    /\ ~args.data.columns
    /\ ret.analysis_results.technical = EmptyDict
    /\ ret.component_scores.technical = Float(50)

\* The polarities of the items of a news list that carry a headline, in order.
HeadlinePolarities(news) ==
    LET carrying == SelectSeq(news, LAMBDA item : "headline" \in DOMAIN item)
    IN  [i \in 1..Len(carrying) |-> carrying[i].headline]

RECURSIVE Added(_, _)
Added(s, i) == IF i = 0 THEN Float(0) ELSE Add(Added(s, i - 1), s[i])

\* C25: with no news item, or none carrying a headline, the sentiment is 0.5 and the
\* sentiment score exactly 50; otherwise the sentiment is (mean of polarities + 1) / 2,
\* which lies in [0, 1] when every polarity lies in [-1, 1].
C25_SentimentOfHeadlines ==
    Returned
    => LET p == HeadlinePolarities(args.news)
       IN  IF Len(p) = 0
           THEN /\ ret.analysis_results.sentiment = Num(1, 2)
                /\ ret.component_scores.sentiment = Float(50)
           ELSE /\ ret.analysis_results.sentiment =
                       Div(Add(Div(Added(p, Len(p)), Float(Len(p))), Float(1)), Float(2))
                /\ (\A i \in 1..Len(p) : Ge(p[i], Float(-1)) /\ Le(p[i], Float(1)))
                   => /\ Ge(ret.analysis_results.sentiment, Float(0))
                      /\ Le(ret.analysis_results.sentiment, Float(1))

\* C25 witness: three items, two with headlines of polarity 0.5 and 0: sentiment 0.625.
C25_Witness ==
    /\ Returned
    /\ Len(args.news) = 3
    /\ Len(HeadlinePolarities(args.news)) = 2
    /\ ret.analysis_results.sentiment = Num(5, 8)
    /\ ret.component_scores.sentiment = Num(125, 2)

\* C26: what a report writes (recommendation, confidence, score, component scores) is
\* the decision computed by the make_decision run the report itself performs, also when
\* no analyze came before.
C26_ReportWritesLatestDecision ==
    \A i \in 1..Len(runs) :
        runs[i].written # None
        => runs[i].written = ReportHead(runs[i].ticker, Popped(runs[i].decision))

\* The provider entries analyze_fundamentals reads.
FinnhubEntries == {"finnhub_price_target", "finnhub_recommendations", "finnhub_earnings"}

\* Every entry of held that is read is the answer the provider gives about ticker.
FetchedFor(held, ticker) ==
    /\ "info" \in DOMAIN held.fundamental_data
       => held.fundamental_data["info"] = Info(ticker)
    /\ \A k \in FinnhubEntries \cap DOMAIN held.fundamental_data :
          held.fundamental_data[k] = Answers[ticker].finnhub[k]
    /\ \A k \in DOMAIN held.alpha_vantage_data :
          /\ k \in DOMAIN Answers[ticker].alpha_vantage
          /\ held.alpha_vantage_data[k] = Answers[ticker].alpha_vantage[k]
    /\ \A k \in DOMAIN held.financial_datasets_data :
          /\ k \in DOMAIN Answers[ticker].financial_datasets
          /\ held.financial_datasets_data[k] = Answers[ticker].financial_datasets[k]

\* C27: once fetch_stock_data(T) has returned, every provider entry a later
\* analyze_fundamentals reads was fetched for T or is absent.
C27_ProviderEntriesOfCurrentTicker ==
    (main.at = "prompt" /\ self.ticker # NoTicker)
    => FetchedFor(Held(self), self.ticker)

\* C28: whenever make_decision runs in the loop, self.data is price data fetched for
\* the ticker self.ticker names.
C28_DecisionOnDataOfCurrentTicker ==
    \A i \in 1..Len(runs) :
        \E period \in Periods, interval \in Intervals :
            runs[i].inputs.data = History(runs[i].ticker, period, interval)

\* C29: whenever make_decision runs, by analyze or inside report, news_data is empty
\* or holds the news fetched for the ticker then loaded.
C29_NewsOfCurrentTicker ==
    \A i \in 1..Len(runs) :
        \/ runs[i].inputs.news_data = <<>>
        \/ runs[i].inputs.news_data = Answers[runs[i].ticker].news

\* C30: the symbol command leaves the period and the interval as they were set and
\* loads the ticker with them, and a period, interval or risk command with an invalid
\* argument changes no setting and starts no fetch.
C30_SettingsPersist ==
    [][/\ \A ticker \in Tickers :
             Symbol(ticker)
             => /\ self'.period = self.period
                /\ self'.interval = self.interval
                /\ main'.at = "join"
                   => self'.data = History(ticker, self.period, self.interval)
       /\ (\/ \E period \in PeriodArguments \ valid_periods : Period(period)
           \/ \E interval \in IntervalArguments \ valid_intervals : Interval(interval)
           \/ \E risk \in RiskArguments \ valid_risks : Risk(risk))
          => /\ self' = self
             /\ threads' = threads
             /\ main'.at = "prompt"]_vars

====
